---- MODULE Spec2Model ----
(***************************************************************************)
(* A model of neovimpv's mpv control core.                                 *)
(*                                                                         *)
(*   - MpvProtocol (rplugin/python3/neovimpv/protocol.py): the request and *)
(*     event demultiplexer, its property cache and its futures.            *)
(*   - MpvPlaylist (rplugin/python3/neovimpv/mpv.py): forward_deletions,   *)
(*     update on got-playlist, set_current_by_playlist_extmark.            *)
(*   - MpvWrapper: the handlers of start-file and file-loaded.             *)
(*   - MpvManager: spawn, the command surface, close.                      *)
(*                                                                         *)
(* The player is modelled as the other end of the IPC socket: it holds the *)
(* commands written to the transport and answers any of them, in any       *)
(* order, with a success or an error reply; it also emits events.          *)
(***************************************************************************)
EXTENDS Integers, Sequences, FiniteSets, TLC

\* ------------------------------------------------------------------ bounds
\* ids that may be drawn from the shared counter _last_property
MaxIds == 2
\* commands written to the transport and not answered yet
MaxWire == 2
\* futures created by wait_property and next_event
MaxFutures == 2
\* the same three bounds for the specification of error replies
ErrMaxIds == 2
ErrMaxWire == 2
ErrMaxFutures == 1
\* and for the specification of transport closure
CloseMaxIds == 2
CloseMaxWire == 2
CloseMaxFutures == 2
\* forward_deletions: the longest live playlist and the most handles removed
\* in one call
DelMaxLen == 8
DelMaxRemoved == 3

\* ------------------------------------------------------- program constants
\* MpvProtocol.SET, MpvProtocol.GET
SET == 0
GET == 1
\* the initial value of _last_property
FirstId == 20
\* the value of _playlist_request when no playlist request is outstanding
NoPlaylistRequest == -1
\* the request_id send_command uses by default
DefaultRequestId == 0

\* ------------------------------------------------------------ input ranges
\* property names the callers use
Names == {"pause", "duration"}
\* JSON values a reply, a property-change or a set_property carries
Values == {"a"}
\* Python's None: an absent key of a JSON object or of the cache
Null == "None"
\* the result _try_handle_event gives an event waiter: set_result(True)
True == "True"
\* event names callers wait for with next_event
WaitNames == {"file-loaded", "close"}
\* the properties MpvWrapper.update_markdown awaits
AwaitedNames == {"media-title", "filename"}
\* the property MpvManager.toggle_video awaits first
RelaunchNames == {"track-list", "playlist-pos", "playback-time"}

VARIABLES
    transport,           \* "open", or "closed" once connection_lost has run;
                         \* "none" while the manager has no protocol yet
    data,                \* MpvProtocol.data: the property cache
    properties,          \* _properties: property name -> observer id
    reverse_properties,  \* _reverse_properties: observer id -> property name
    last_property,       \* _last_property: the shared id counter
    waiting_properties,  \* _waiting_properties: request id -> (type, name, future)
    ignore_errors,       \* _ignore_errors: list of request ids
    waiting_events,      \* _waiting_events: event name -> list of futures
    playlist_request,    \* _playlist_request
    futures,             \* the asyncio futures created so far: state and result
    wire,                \* commands written to the transport, not answered yet
    out,                 \* what the last call or handler did: the events it
                         \* dispatched, the error it showed, what it raised
    del_in,              \* forward_deletions: the session it runs on
    del_sent,            \* forward_deletions: the playlist-remove commands it wrote
    mgr,                 \* MpvManager and its MpvWrapper: mpv, update_action, no_draw, ...
    plist,               \* MpvPlaylist: the id maps of playlist reconciliation
    player,              \* the player's side: its live playlist and the ids it hands out
    nvim,                \* the editor: callbacks given to async_call and not yet
                         \* run, the handles it hands out
    tasks,               \* coroutines of the session that are suspended
    did                  \* what the last step of the session layer did: the
                         \* errors it showed, the commands it sent, what it raised

protoVars == <<transport, data, properties, reverse_properties, last_property,
               waiting_properties, ignore_errors, waiting_events,
               playlist_request, futures, wire, out>>
delVars == <<del_in, del_sent>>
sessionVars == <<mgr, plist, player, nvim, tasks, did>>
vars == <<transport, data, properties, reverse_properties, last_property,
          waiting_properties, ignore_errors, waiting_events,
          playlist_request, futures, wire, out, del_in, del_sent,
          mgr, plist, player, nvim, tasks, did>>

\* ----------------------------------------------------------------- helpers
Range(s) == {s[i] : i \in 1..Len(s)}

\* list.remove(x): drop the first occurrence of x
RemoveFirst(s, x) ==
    LET i == CHOOSE k \in 1..Len(s) : s[k] = x /\ \A j \in 1..(k - 1) : s[j] # x
    IN  SubSeq(s, 1, i - 1) \o SubSeq(s, i + 1, Len(s))

RemoveAt(s, i) == SubSeq(s, 1, i - 1) \o SubSeq(s, i + 1, Len(s))

\* del d[k]
Without(f, k) == [x \in DOMAIN f \ {k} |-> f[x]]

\* d[k] = v
With(f, k, v) == [x \in DOMAIN f \cup {k} |-> IF x = k THEN v ELSE f[x]]

\* what a call or handler that dispatches nothing, fulfils nothing and raises
\* nothing leaves in `out`
Quiet == [events |-> <<>>, pname |-> Null, fulfilled |-> <<>>, raised |-> Null]


RECURSIVE Ascending(_)
\* the elements of a set of integers, smallest first: the iteration order of a
\* dict whose keys were inserted in increasing order
Ascending(S) ==
    IF S = {} THEN <<>>
    ELSE LET m == CHOOSE x \in S : \A y \in S : x <= y
         IN  <<m>> \o Ascending(S \ {m})

Pending == [state |-> "pending", result |-> Null]
Done(v) == [state |-> "done", result |-> v]
Cancelled == [state |-> "cancelled", result |-> Null]

\* -------------------------------------------------------------- _property_id
\* a _property_id that never looks the name up
PropertyId_AlwaysNew(n) == last_property

\* prop_id = self._properties.get(property_name, self._last_property)
PropertyId(n) == IF n \in DOMAIN properties THEN properties[n] ELSE last_property

\* if prop_id == self._last_property: record the id and advance the counter
Allocates(n) == PropertyId(n) = last_property

PropertiesAfter(n) ==
    IF Allocates(n) THEN With(properties, n, PropertyId(n)) ELSE properties

ReverseAfter(n) ==
    IF Allocates(n) THEN With(reverse_properties, PropertyId(n), n)
    ELSE reverse_properties

LastAfterPropertyId(n) ==
    IF Allocates(n) THEN last_property + 1 ELSE last_property

\* a request that leaves the counter where it was
LastAfterRequest_NoIncrement == last_property

\* the counter after wait_property, set_property(update=True) and _try_playlist
\* have used its value as a request id: self._last_property += 1
LastAfterRequest == last_property + 1

\* -------------------------------------------------------------- send_command
\* if self.transport.is_closing(): return
Closing == transport # "open"

\* self.transport.write(...): the command reaches the player
WireAfter(w, rid, ign) ==
    IF Closing THEN w ELSE Append(w, [rid |-> rid, tag |-> ign])

\* if ignore_error: self._ignore_errors.append(request_id)
IgnoreAfter(ie, rid, ign) ==
    IF Closing \/ ~ign THEN ie ELSE Append(ie, rid)

\* ------------------------------------------------------------ client calls
SendCommand(ign) ==
    /\ wire' = WireAfter(wire, DefaultRequestId, ign)
    /\ ignore_errors' = IgnoreAfter(ignore_errors, DefaultRequestId, ign)
    /\ out' = Quiet
    /\ UNCHANGED <<transport, data, properties, reverse_properties, last_property,
                   waiting_properties, waiting_events, playlist_request, futures>>
    /\ UNCHANGED delVars

ObserveProperty(n, ign) ==
    /\ properties' = PropertiesAfter(n)
    /\ reverse_properties' = ReverseAfter(n)
    /\ last_property' = LastAfterPropertyId(n)
    /\ wire' = WireAfter(wire, DefaultRequestId, ign)
    /\ ignore_errors' = IgnoreAfter(ignore_errors, DefaultRequestId, ign)
    /\ out' = Quiet
    /\ UNCHANGED <<transport, data, waiting_properties, waiting_events,
                   playlist_request, futures>>
    /\ UNCHANGED delVars

GetProperty(n, ign) ==
    /\ properties' = PropertiesAfter(n)
    /\ reverse_properties' = ReverseAfter(n)
    /\ last_property' = LastAfterPropertyId(n)
    /\ wire' = WireAfter(wire, PropertyId(n), ign)
    /\ ignore_errors' = IgnoreAfter(ignore_errors, PropertyId(n), ign)
    /\ out' = Quiet
    /\ UNCHANGED <<transport, data, waiting_properties, waiting_events,
                   playlist_request, futures>>
    /\ UNCHANGED delVars

WaitProperty(n, ign) ==
    /\ futures' = Append(futures, Pending)
    /\ waiting_properties' = With(waiting_properties, last_property,
           [type |-> GET, name |-> n, future |-> Len(futures) + 1])
    /\ wire' = WireAfter(wire, last_property, ign)
    /\ ignore_errors' = IgnoreAfter(ignore_errors, last_property, ign)
    /\ last_property' = LastAfterRequest
    /\ out' = Quiet
    /\ UNCHANGED <<transport, data, properties, reverse_properties,
                   waiting_events, playlist_request>>
    /\ UNCHANGED delVars

\* a set_property that writes the cache before the player has answered
DataAfterSet_Optimistic(n, v, update) ==
    IF update THEN [data EXCEPT ![n] = v] ELSE data

\* data[name] right after set_property has returned: set_property does not
\* touch self.data
DataAfterSet(n, v, update) == data

SetProperty(n, v, update, ign) ==
    /\ IF update
       THEN /\ waiting_properties' = With(waiting_properties, last_property,
                   [type |-> SET, name |-> n, future |-> v])
            /\ wire' = WireAfter(wire, last_property, ign)
            /\ ignore_errors' = IgnoreAfter(ignore_errors, last_property, ign)
            /\ last_property' = LastAfterRequest
       ELSE /\ wire' = WireAfter(wire, DefaultRequestId, ign)
            /\ ignore_errors' = IgnoreAfter(ignore_errors, DefaultRequestId, ign)
            /\ UNCHANGED <<waiting_properties, last_property>>
    /\ data' = DataAfterSet(n, v, update)
    /\ out' = Quiet
    /\ UNCHANGED <<transport, properties, reverse_properties,
                   waiting_events, playlist_request, futures>>
    /\ UNCHANGED delVars

NextEvent(e) ==
    /\ futures' = Append(futures, Pending)
    /\ waiting_events' = [waiting_events EXCEPT ![e] = Append(@, Len(futures) + 1)]
    /\ out' = Quiet
    /\ UNCHANGED <<transport, data, properties, reverse_properties, last_property,
                   waiting_properties, ignore_errors, playlist_request, wire>>
    /\ UNCHANGED delVars

\* a fetch_subscribed whose get_property commands carry no ignore tag
FetchWire_Untagged(w, ids) ==
    IF Closing THEN w ELSE w \o [i \in 1..Len(ids) |-> [rid |-> ids[i], tag |-> FALSE]]

RECURSIVE FetchWire(_, _)
FetchWire(w, ids) ==
    IF ids = <<>> THEN w ELSE FetchWire(WireAfter(w, Head(ids), TRUE), Tail(ids))

RECURSIVE FetchIgnore(_, _)
FetchIgnore(ie, ids) ==
    IF ids = <<>> THEN ie
    ELSE FetchIgnore(IgnoreAfter(ie, Head(ids), TRUE), Tail(ids))

\* for prop in self._properties: self.get_property(prop, ignore_error=True)
FetchSubscribed ==
    /\ properties # <<>>
    /\ LET ids == Ascending({properties[n] : n \in DOMAIN properties})
       IN  /\ wire' = FetchWire(wire, ids)
           /\ ignore_errors' = FetchIgnore(ignore_errors, ids)
    /\ out' = Quiet
    /\ UNCHANGED <<transport, data, properties, reverse_properties, last_property,
                   waiting_properties, waiting_events, playlist_request, futures>>
    /\ UNCHANGED delVars


\* --------------------------------------------------------- _try_handle_event
\* the futures waiting for event e
Waiting(e) == IF e \in WaitNames THEN waiting_events[e] ELSE <<>>

\* for future in self._waiting_events.get(event_name, []): future.set_result(True)
\* set_result raises InvalidStateError on a future that is not pending: the
\* position in the list where the loop stops (Len + 1 when it runs through)
StopsAt(ws, fut) ==
    CHOOSE k \in 1..(Len(ws) + 1) :
        /\ k = Len(ws) + 1 \/ fut[ws[k]].state # "pending"
        /\ \A j \in 1..(k - 1) : fut[ws[j]].state = "pending"

FulfilledBy(e, fut) == SubSeq(Waiting(e), 1, StopsAt(Waiting(e), fut) - 1)

FuturesAfterEvent(e, fut) ==
    [f \in DOMAIN fut |->
        IF f \in Range(FulfilledBy(e, fut)) THEN Done(True) ELSE fut[f]]

RaisedByEvent(e, fut) ==
    IF StopsAt(Waiting(e), fut) <= Len(Waiting(e)) THEN "InvalidStateError" ELSE Null

\* self._waiting_events[event_name] = [] (not reached when set_result raised)
WaitingAfterEvent(e, fut) ==
    IF e \in WaitNames /\ RaisedByEvent(e, fut) = Null
    THEN [waiting_events EXCEPT ![e] = <<>>]
    ELSE waiting_events

\* ------------------------------------------------------------- data_received
\* self._ignore_errors.remove(request_id) succeeded
Consumed(rid) == rid \in Range(ignore_errors)

IgnoreAfterReply(rid) ==
    IF Consumed(rid) THEN RemoveFirst(ignore_errors, rid) ELSE ignore_errors

\* a classification that looks at the error only after the request id
ReplyBranch_ErrorLast(rid, err) ==
    IF rid \in DOMAIN reverse_properties THEN "property"
    ELSE IF rid = playlist_request THEN "playlist"
    ELSE IF rid \in DOMAIN waiting_properties THEN "waiting"
    ELSE IF err THEN (IF Consumed(rid) THEN "ignored" ELSE "error")
    ELSE "unknown"

\* which branch of data_received a reply takes
ReplyBranch(rid, err) ==
    IF err THEN (IF Consumed(rid) THEN "ignored" ELSE "error")
    ELSE IF rid \in DOMAIN reverse_properties THEN "property"
    ELSE IF rid = playlist_request THEN "playlist"
    ELSE IF rid \in DOMAIN waiting_properties THEN "waiting"
    ELSE "unknown"

\* datum.update({"property-name": property_name}) when the id is an observer id
ErrorPropertyName(rid) ==
    IF rid \in DOMAIN reverse_properties THEN reverse_properties[rid] ELSE Null

\* the player answers the i-th outstanding command: {"request_id": rid,
\* "error": "success" | <message>, "data": d}
Reply(i, err, d) ==
    /\ transport = "open"
    /\ i \in 1..Len(wire)
    /\ LET rid == wire[i].rid
           branch == ReplyBranch(rid, err)
           entry == waiting_properties[rid]
       IN  /\ wire' = RemoveAt(wire, i)
           /\ ignore_errors' = IgnoreAfterReply(rid)
           /\ CASE branch = "ignored" ->
                    /\ out' = Quiet
                    /\ UNCHANGED <<data, waiting_properties, waiting_events,
                                   playlist_request, futures>>
                [] branch = "error" ->
                    /\ futures' = FuturesAfterEvent("error", futures)
                    /\ waiting_events' = WaitingAfterEvent("error", futures)
                    /\ out' = [Quiet EXCEPT !.events = <<"error">>,
                                   !.pname = ErrorPropertyName(rid),
                                   !.fulfilled = FulfilledBy("error", futures),
                                   !.raised = RaisedByEvent("error", futures)]
                    /\ UNCHANGED <<data, waiting_properties, playlist_request>>
                [] branch = "property" ->
                    /\ data' = [data EXCEPT ![reverse_properties[rid]] = d]
                    /\ out' = Quiet
                    /\ UNCHANGED <<waiting_properties, waiting_events,
                                   playlist_request, futures>>
                [] branch = "playlist" ->
                    /\ futures' = FuturesAfterEvent("got-playlist", futures)
                    /\ waiting_events' = WaitingAfterEvent("got-playlist", futures)
                    /\ playlist_request' = NoPlaylistRequest
                    /\ out' = [Quiet EXCEPT !.events = <<"got-playlist">>]
                    /\ UNCHANGED <<data, waiting_properties>>
                [] branch = "waiting" ->
                    /\ waiting_properties' = Without(waiting_properties, rid)
                    /\ IF entry.type = GET
                       THEN /\ data' = [data EXCEPT ![entry.name] = d]
                            /\ futures' = [futures EXCEPT ![entry.future] =
                                   IF @.state = "pending" THEN Done(d) ELSE @]
                            /\ out' = [Quiet EXCEPT !.fulfilled = IF futures[entry.future].state = "pending"
                                                 THEN <<entry.future>> ELSE <<>>,
                                   !.raised = IF futures[entry.future].state = "pending"
                                              THEN Null ELSE "InvalidStateError"]
                       ELSE /\ data' = [data EXCEPT ![entry.name] = entry.future]
                            /\ out' = Quiet
                            /\ UNCHANGED futures
                    /\ UNCHANGED <<waiting_events, playlist_request>>
                [] OTHER ->
                    /\ out' = Quiet
                    /\ UNCHANGED <<data, waiting_properties, waiting_events,
                                   playlist_request, futures>>
    /\ UNCHANGED <<transport, properties, reverse_properties, last_property>>
    /\ UNCHANGED delVars

\* -------------------------------------------------------------------- events
\* a _property_change that ignores which observer the event names
DataAfterChange_AnyId(id, d) ==
    IF d # Null THEN [n \in Names |-> IF n \in DOMAIN properties THEN d ELSE data[n]]
    ELSE data

\* _property_change: the cache after {"event": "property-change", "id": id, "data": d}
DataAfterChange(id, d) ==
    IF id \in DOMAIN reverse_properties /\ d # Null
    THEN [data EXCEPT ![reverse_properties[id]] = d]
    ELSE data

PropertyChange(id, d) ==
    /\ transport = "open"
    /\ data' = DataAfterChange(id, d)
    /\ futures' = FuturesAfterEvent("property-change", futures)
    /\ waiting_events' = WaitingAfterEvent("property-change", futures)
    /\ out' = [Quiet EXCEPT !.events = <<"property-change">>]
    /\ UNCHANGED <<transport, properties, reverse_properties, last_property,
                   waiting_properties, ignore_errors, playlist_request, wire>>
    /\ UNCHANGED delVars

\* an event no default handler is registered for, such as file-loaded
PlayerEvent(e) ==
    /\ transport = "open"
    /\ futures' = FuturesAfterEvent(e, futures)
    /\ waiting_events' = WaitingAfterEvent(e, futures)
    /\ out' = [Quiet EXCEPT !.events = <<e>>,
                   !.fulfilled = FulfilledBy(e, futures),
                   !.raised = RaisedByEvent(e, futures)]
    /\ UNCHANGED <<transport, data, properties, reverse_properties, last_property,
                   waiting_properties, ignore_errors, playlist_request, wire>>
    /\ UNCHANGED delVars

\* end-file with reason redirect: _try_playlist asks for the playlist under a
\* fresh id and dispatches pre-got-playlist
EndFileRedirect ==
    /\ transport = "open"
    /\ playlist_request' = last_property
    /\ wire' = WireAfter(wire, last_property, FALSE)
    /\ last_property' = LastAfterRequest
    /\ futures' = FuturesAfterEvent("end-file", FuturesAfterEvent("pre-got-playlist", futures))
    /\ waiting_events' = waiting_events
    /\ out' = [Quiet EXCEPT !.events = <<"pre-got-playlist", "end-file">>]
    /\ UNCHANGED <<transport, data, properties, reverse_properties,
                   waiting_properties, ignore_errors>>
    /\ UNCHANGED delVars

\* ----------------------------------------------------------- connection_lost
Min(S) == CHOOSE x \in S : \A y \in S : x <= y

SetIds == {r \in DOMAIN waiting_properties : waiting_properties[r].type = SET}

\* for _, __, future in self._waiting_properties.values(): future.cancel()
\* the third member of a SET entry is the value to set, which has no cancel():
\* the loop raises AttributeError at the first SET entry
RequestLoopRaises == SetIds # {}

\* the futures the first loop reaches
RequestFuturesReached ==
    {waiting_properties[r].future :
        r \in {x \in DOMAIN waiting_properties :
                  /\ waiting_properties[x].type = GET
                  /\ RequestLoopRaises => x < Min(SetIds)}}

\* for event in self._waiting_events.values(): for future in event: future.cancel()
EventFuturesReached ==
    IF RequestLoopRaises THEN {}
    ELSE UNION {Range(waiting_events[e]) : e \in WaitNames}

\* future.cancel(): a pending future becomes cancelled, any other is left alone
Cancel(fut, F) ==
    [f \in DOMAIN fut |->
        IF f \in F /\ fut[f].state = "pending" THEN Cancelled ELSE fut[f]]

ConnectionLost ==
    /\ transport = "open"
    /\ transport' = "closed"
    /\ wire' = <<>>
    /\ LET cancelled == Cancel(futures, RequestFuturesReached \cup EventFuturesReached)
       IN  IF RequestLoopRaises
           THEN /\ futures' = cancelled
                /\ out' = [Quiet EXCEPT !.raised = "AttributeError"]
                /\ UNCHANGED waiting_events
           ELSE /\ futures' = FuturesAfterEvent("close", cancelled)
                /\ waiting_events' = WaitingAfterEvent("close", cancelled)
                /\ out' = [Quiet EXCEPT !.events = <<"close">>,
                               !.fulfilled = FulfilledBy("close", cancelled),
                               !.raised = RaisedByEvent("close", cancelled)]
    /\ UNCHANGED <<data, properties, reverse_properties, last_property,
                   waiting_properties, ignore_errors, playlist_request>>
    /\ UNCHANGED delVars

\* ------------------------------------------------------------ specification
InitProtocol ==
    /\ transport = "open"
    /\ data = [n \in Names \cup AwaitedNames \cup RelaunchNames |-> Null]
    /\ properties = <<>>
    /\ reverse_properties = <<>>
    /\ last_property = FirstId
    /\ waiting_properties = <<>>
    /\ ignore_errors = <<>>
    /\ waiting_events = [e \in WaitNames |-> <<>>]
    /\ playlist_request = NoPlaylistRequest
    /\ futures = <<>>
    /\ wire = <<>>
    /\ out = Quiet

\* no session is built on top of the protocol
NoSession ==
    /\ mgr = Null
    /\ plist = Null
    /\ player = Null
    /\ nvim = Null
    /\ tasks = <<>>
    /\ did = Null

Init ==
    /\ InitProtocol
    /\ del_in = Null
    /\ del_sent = <<>>
    /\ NoSession

\* the part of the state space a specification explores: at most `ids` ids drawn
\* from the counter, `w` commands awaiting their reply, `f` futures
Within(ids, w, f) ==
    /\ last_property <= FirstId + ids
    /\ Len(wire) <= w
    /\ Len(futures) <= f

\* Requests, observers and their replies: every call that draws an id, and the
\* player answering in any order and pushing property changes.
InBounds == Within(MaxIds, MaxWire, MaxFutures)

Next ==
    \/ \E n \in Names : ObserveProperty(n, FALSE) /\ InBounds'
           /\ UNCHANGED sessionVars
    \/ \E n \in Names : GetProperty(n, FALSE) /\ InBounds'
           /\ UNCHANGED sessionVars
    \/ \E n \in Names : WaitProperty(n, FALSE) /\ InBounds'
           /\ UNCHANGED sessionVars
    \/ \E n \in Names, v \in Values : SetProperty(n, v, TRUE, FALSE) /\ InBounds'
           /\ UNCHANGED sessionVars
    \/ EndFileRedirect /\ InBounds'
           /\ UNCHANGED sessionVars
    \/ \E i \in 1..Len(wire), d \in Values \cup {Null} : Reply(i, FALSE, d)
           /\ UNCHANGED sessionVars
    \/ \E i \in 1..Len(wire) : Reply(i, TRUE, Null)
           /\ UNCHANGED sessionVars
    \/ \E id \in FirstId..last_property, d \in Values \cup {Null} :
           PropertyChange(id, d)
           /\ UNCHANGED sessionVars

Spec == Init /\ [][Next]_vars


\* Error replies and the ignore-error tag: commands sent with and without the
\* tag, under the default request id, an observer id or a fresh id, and the
\* player answering each with success or with an error.
ErrInBounds == Within(ErrMaxIds, ErrMaxWire, ErrMaxFutures)

NextErrors ==
    \/ \E ign \in BOOLEAN : SendCommand(ign) /\ ErrInBounds'
           /\ UNCHANGED sessionVars
    \/ \E n \in Names : ObserveProperty(n, FALSE) /\ ErrInBounds'
           /\ UNCHANGED sessionVars
    \/ \E n \in Names, ign \in BOOLEAN : GetProperty(n, ign) /\ ErrInBounds'
           /\ UNCHANGED sessionVars
    \/ \E n \in Names, ign \in BOOLEAN : WaitProperty(n, ign) /\ ErrInBounds'
           /\ UNCHANGED sessionVars
    \/ \E n \in Names, v \in Values, ign \in BOOLEAN :
           SetProperty(n, v, TRUE, ign) /\ ErrInBounds'
           /\ UNCHANGED sessionVars
    \/ FetchSubscribed /\ ErrInBounds'
           /\ UNCHANGED sessionVars
    \/ \E i \in 1..Len(wire), d \in Values \cup {Null} : Reply(i, FALSE, d)
           /\ UNCHANGED sessionVars
    \/ \E i \in 1..Len(wire) : Reply(i, TRUE, Null)
           /\ UNCHANGED sessionVars

SpecErrors == Init /\ [][NextErrors]_vars

\* Transport closure: requests and event waiters are outstanding when the
\* connection is lost; calls go on after it.
CloseInBounds == Within(CloseMaxIds, CloseMaxWire, CloseMaxFutures)

NextClose ==
    \/ \E n \in Names : WaitProperty(n, FALSE) /\ CloseInBounds'
           /\ UNCHANGED sessionVars
    \/ \E n \in Names, v \in Values : SetProperty(n, v, TRUE, FALSE) /\ CloseInBounds'
           /\ UNCHANGED sessionVars
    \/ \E e \in WaitNames : NextEvent(e) /\ CloseInBounds'
           /\ UNCHANGED sessionVars
    \/ \E i \in 1..Len(wire), d \in Values \cup {Null} : Reply(i, FALSE, d)
           /\ UNCHANGED sessionVars
    \/ \E i \in 1..Len(wire) : Reply(i, TRUE, Null)
           /\ UNCHANGED sessionVars
    \/ PlayerEvent("file-loaded")
           /\ UNCHANGED sessionVars
    \/ ConnectionLost
           /\ UNCHANGED sessionVars

SpecClose == Init /\ [][NextClose]_vars

\* ---------------------------------------------------------- forward_deletions
\* a sort that forgets reverse=True
SortReverse_Ascending(s) ==
    LET RECURSIVE Ins(_, _), Sort(_)
        Ins(x, t) == IF t = <<>> THEN <<x>>
                     ELSE IF x <= Head(t) THEN <<x>> \o t
                     ELSE <<Head(t)>> \o Ins(x, Tail(t))
        Sort(t) == IF t = <<>> THEN <<>> ELSE Ins(Head(t), Sort(Tail(t)))
    IN  Sort(s)

\* removed_indices.sort(reverse=True)
SortReverse(s) ==
    LET RECURSIVE Ins(_, _), Sort(_)
        Ins(x, t) == IF t = <<>> THEN <<x>>
                     ELSE IF x >= Head(t) THEN <<x>> \o t
                     ELSE <<Head(t)>> \o Ins(x, Tail(t))
        Sort(t) == IF t = <<>> THEN <<>> ELSE Ins(Head(t), Sort(Tail(t)))
    IN  Sort(s)

\* playlist_ids = [i for i, j in self.playlist_id_to_extmark_id.items()
\*                 if j in removed_items]
\* (the list is only tested for membership, so a set stands for it)
PlaylistIds(extmark, removed) == {i \in DOMAIN extmark : extmark[i] \in removed}

\* static_deletions = [j for i in removed_items
\*                     for j, k in self.playlist_id_remap.items() if k == i]
StaticDeletions(remap, removed) == {j \in DOMAIN remap : remap[j] \in removed}

RECURSIVE RemovedIndices(_, _, _)
\* removed_indices = [index for index, item in enumerate(playlist)
\*                    if item["id"] in playlist_ids], index counting from 0;
\* `from` is the index of the first item of `playlist`
RemovedIndices(playlist, ids, from) ==
    IF playlist = <<>> THEN <<>>
    ELSE (IF Head(playlist) \in ids THEN <<from>> ELSE <<>>)
         \o RemovedIndices(Tail(playlist), ids, from + 1)

\* the arguments of the playlist-remove commands forward_deletions sends, in
\* the order it sends them
ForwardDeletionsSends(s, removed) ==
    IF Closing THEN <<>>
    ELSE SortReverse(RemovedIndices(s.playlist,
             PlaylistIds(s.playlist_id_to_extmark_id, removed)
                 \cup StaticDeletions(s.playlist_id_remap, removed), 0))

\* one call per session: removed_items is the argument of the call made
ForwardDeletions(removed) ==
    /\ del_in.removed_items = {}
    /\ del_in' = [del_in EXCEPT !.removed_items = removed]
    /\ del_sent' = ForwardDeletionsSends(del_in, removed)
    /\ UNCHANGED protoVars

\* player ids n, n-1, ..., 1
RECURSIVE Descending(_)
Descending(n) == IF n = 0 THEN <<>> ELSE <<n>> \o Descending(n - 1)

\* The sessions forward_deletions is applied to: a live playlist of n entries
\* with player ids 1..n, in the order they were loaded or reversed; display
\* handles numbered like the player ids or one above them; and, when `stayed`,
\* the last entry being an expansion of entry 1 recorded in playlist_id_remap
\* instead of having a handle of its own.
Sessions ==
    {[playlist |-> IF rev THEN Descending(n) ELSE [k \in 1..n |-> k],
      playlist_id_to_extmark_id |->
          [i \in (IF stayed THEN 1..(n - 1) ELSE 1..n) |-> i + off],
      playlist_id_remap |-> IF stayed THEN (n :> 1) ELSE <<>>,
      removed_items |-> {}] :
        n \in 2..DelMaxLen, rev \in BOOLEAN, off \in {0, 1}, stayed \in BOOLEAN}

Handles(s) == {s.playlist_id_to_extmark_id[i] : i \in DOMAIN s.playlist_id_to_extmark_id}

InitDeletions ==
    /\ InitProtocol
    /\ del_in \in Sessions
    /\ del_sent = <<>>
    /\ NoSession

NextDeletions ==
    \/ \E removed \in SUBSET Handles(del_in) :
           /\ removed # {}
           /\ Cardinality(removed) <= DelMaxRemoved
           /\ ForwardDeletions(removed)
           /\ UNCHANGED sessionVars

SpecDeletions == InitDeletions /\ [][NextDeletions]_vars

\* ==========================================================================
\* The session layer (rplugin/python3/neovimpv/mpv.py): MpvManager, its
\* MpvWrapper and its MpvPlaylist, on top of the protocol
\* ==========================================================================
\* got-playlist events: the highest id the player hands out to an entry
PlMaxIds == 5

\* the number of items a session is opened with: one line, or a range of lines
OpenedWith == {1, 2}

\* the first display handle the editor hands out: handles are numbered apart
\* from the player's ids
FirstHandle == 11

\* plugin.on_playlist_update, or what parse_mpvopen_args and
\* _try_smart_youtube put in its place
UpdateActions == {"stay", "paste", "paste_one", "new_one"}

\* dict.get(k)
Get(f, k) == IF k \in DOMAIN f THEN f[k] ELSE Null

\* a step of the session layer that shows nothing, sends nothing and raises
\* nothing
Nothing == [shown |-> <<>>, sent |-> <<>>, raised |-> Null]

\* _construct_playlist_items: playlist_id_to_extra_data[i + 1] =
\* (filename, write_markdown, unmarkdown); a content reference is named by a
\* number
ExtraData(filename, write_markdown, unmarkdown) ==
    [filename |-> filename, write_markdown |-> write_markdown,
     unmarkdown |-> unmarkdown]

\* an entry of the player's playlist property; title is absent (Null) when
\* the player knows none; current marks the entry the player is at
Entry(id, title, current) ==
    [id |-> id, filename |-> id, title |-> title, current |-> current]

\* ------------------------------------------------------- MpvPlaylist.update
\* range(start, end): the ids the redirect inserted
InsertRange(new) ==
    new.playlist_insert_id..
        (new.playlist_insert_id + new.playlist_insert_num_entries - 1)

\* a do_stay that ignores how many items the session holds
DoStay_ConfiguredOnly(action, extmark) == action = "stay"

\* do_stay = update_action == "stay" or
\*     len(playlist_id_to_extmark_id) > 1 and update_action in ("paste_one", "new_one")
DoStay(action, extmark) ==
    \/ action = "stay"
    \/ Cardinality(DOMAIN extmark) > 1 /\ action \in {"paste_one", "new_one"}

\* the position in data["playlist"] of the first inserted entry without a
\* title, where playlist_entry["title"] raises KeyError; 0 when all have one
FirstUntitled(ev) ==
    LET bad == {k \in 1..Len(ev.playlist) :
                   /\ ev.playlist[k].id \in InsertRange(ev.new)
                   /\ ev.playlist[k].title = Null}
    IN  IF bad = {} THEN 0 ELSE Min(bad)

\* self._loaded_titles[playlist_entry["filename"]] = playlist_entry["title"],
\* for the inserted entries the loop reaches
LoadedTitlesAfter(titles, ev) ==
    LET stop == IF FirstUntitled(ev) = 0 THEN Len(ev.playlist) + 1
                ELSE FirstUntitled(ev)
        seen == {k \in 1..(stop - 1) : ev.playlist[k].id \in InsertRange(ev.new)}
        names == {ev.playlist[k].filename : k \in seen}
    IN  [f \in DOMAIN titles \cup names |->
            IF f \in names
            THEN (CHOOSE e \in {ev.playlist[k] : k \in seen} : e.filename = f).title
            ELSE titles[f]]

\* self._new_extra_data = None: no table is prepared (a prepared table has an
\* item per entry of a playlist, which is never empty)
NoExtraData == <<>>

\* new_extra_data[i + 1]: the old item carried over, or a new item
NewExtraData(extra, ev) ==
    [k \in 1..Len(ev.playlist) |->
        IF ev.playlist[k].id \notin InsertRange(ev.new)
        THEN Get(extra, ev.playlist[k].id)
        ELSE ExtraData(ev.playlist[k].filename, FALSE, FALSE)]

\* for i in range(start, end): self.playlist_id_remap[i] = original_entry
RemapAfter(remap, new) ==
    [i \in DOMAIN remap \cup InsertRange(new) |->
        IF i \in InsertRange(new) THEN new.playlist_entry_id ELSE remap[i]]

\* what update records in playlist_id_remap when it stays: the entries of the
\* redirect, unless the loop over the playlist raised before
StayRecords(remap, ev) ==
    IF FirstUntitled(ev) # 0 THEN remap ELSE RemapAfter(remap, ev.new)

\* [i for i in data["playlist"] if i["id"] in range(start, end)]
NewPlaylist(ev) ==
    SelectSeq(ev.playlist, LAMBDA e : e.id \in InsertRange(ev.new))

\* the callback update hands to nvim.async_call when it does not stay
Scheduled(action) ==
    IF action \in {"paste", "paste_one"} THEN "_paste_playlist"
    ELSE IF action = "new_one" THEN "_new_playlist_buffer"
    ELSE Null

\* the handler of got-playlist
Update(ev) ==
    LET new == ev.new
        raises == FirstUntitled(ev) # 0
        stay == DoStay(mgr.update_action, plist.playlist_id_to_extmark_id)
        calls == ~raises /\ ~stay /\ Scheduled(mgr.update_action) # Null
    IN  /\ plist' = [plist EXCEPT
               !.updated_indices =
                   With(@, new.playlist_entry_id, new.playlist_insert_id),
               !.loaded_titles = LoadedTitlesAfter(@, ev),
               !.new_extra_data =
                   IF raises THEN @
                   ELSE NewExtraData(plist.playlist_id_to_extra_data, ev),
               !.playlist_id_remap = IF stay THEN StayRecords(@, ev) ELSE @]
        /\ mgr' = [mgr EXCEPT !.no_draw = IF calls THEN TRUE ELSE @]
        /\ nvim' = [nvim EXCEPT !.calls =
               IF calls
               THEN Append(@, [fn |-> Scheduled(mgr.update_action),
                               new_playlist |-> NewPlaylist(ev),
                               playlist_id |-> new.playlist_entry_id])
               ELSE @]
        /\ did' = [Nothing EXCEPT !.raised = IF raises THEN "KeyError" ELSE Null]

\* ------------------------------------------------ callbacks run by the editor
\* the handles the editor returns for n lines: one new handle per line
NewHandles(n) == [j \in 1..n |-> nvim.next_handle + j - 1]

\* use_markdown = self.playlist_id_to_extra_data.get(playlist_id, ["", False, False])[2]
UseMarkdown(extra, playlist_id) ==
    IF playlist_id \in DOMAIN extra THEN extra[playlist_id].unmarkdown ELSE FALSE

\* write_lines: the filename, or a markdown link of title and filename
WriteLines(new_playlist, use_markdown) ==
    [j \in 1..Len(new_playlist) |->
        IF use_markdown
        THEN <<new_playlist[j].title, new_playlist[j].filename>>
        ELSE <<new_playlist[j].filename>>]

\* for mpv_item, extmark_id in zip(new_playlist, new_extmarks):
\*     self.playlist_id_to_extmark_id[mpv_item["id"]] = extmark_id
BindExtmarks(extmark, new_playlist, new_extmarks) ==
    LET n == IF Len(new_playlist) < Len(new_extmarks)
             THEN Len(new_playlist) ELSE Len(new_extmarks)
        ids == {new_playlist[j].id : j \in 1..n}
    IN  [i \in DOMAIN extmark \cup ids |->
            IF i \in ids
            THEN new_extmarks[CHOOSE j \in 1..n :
                     /\ new_playlist[j].id = i
                     /\ \A l \in (j + 1)..n : new_playlist[l].id # i]
            ELSE extmark[i]]

\*     self.playlist_id_to_extra_data[mpv_item["id"]] =
\*         (mpv_item["filename"], False, use_markdown)
BindExtraData(extra, new_playlist, new_extmarks, use_markdown) ==
    LET n == IF Len(new_playlist) < Len(new_extmarks)
             THEN Len(new_playlist) ELSE Len(new_extmarks)
        ids == {new_playlist[j].id : j \in 1..n}
    IN  [i \in DOMAIN extra \cup ids |->
            IF i \in ids
            THEN ExtraData((CHOOSE e \in Range(new_playlist) : e.id = i).filename,
                           FALSE, use_markdown)
            ELSE extra[i]]

\* MpvPlaylist._paste_playlist, run by the editor
PastePlaylist(call) ==
    LET current == {j \in 1..Len(call.new_playlist) : call.new_playlist[j].current}
        use_markdown == UseMarkdown(plist.playlist_id_to_extra_data, call.playlist_id)
        lines == WriteLines(call.new_playlist, use_markdown)
        new_extmarks == NewHandles(Len(lines))
    IN  IF current = {}
        THEN \* self.manager.plugin.log_error: the plugin has no such method
             /\ did' = [Nothing EXCEPT !.raised = "AttributeError"]
             /\ nvim' = [nvim EXCEPT !.calls = Tail(@)]
             /\ UNCHANGED <<mgr, plist>>
        ELSE /\ nvim' = [nvim EXCEPT !.calls = Tail(@),
                             !.next_handle = @ + Len(lines),
                             !.pasted = Append(@,
                                 [at |-> Get(plist.playlist_id_to_extmark_id,
                                             call.playlist_id),
                                  lines |-> lines])]
             /\ mgr' = [mgr EXCEPT !.no_draw = FALSE]
             /\ plist' = [plist EXCEPT
                    !.playlist_id_to_extmark_id =
                        BindExtmarks(@, call.new_playlist, new_extmarks),
                    !.playlist_id_to_extra_data =
                        BindExtraData(@, call.new_playlist, new_extmarks, use_markdown)]
             /\ did' = Nothing

\* self.playlist_id_to_extmark_id.clear(); self.playlist_id_to_extra_data.clear()
KeptByNewBuffer(f) == <<>>

\* MpvPlaylist._new_playlist_buffer, run by the editor
NewPlaylistBuffer(call) ==
    LET use_markdown == UseMarkdown(plist.playlist_id_to_extra_data, call.playlist_id)
        lines == WriteLines(call.new_playlist, use_markdown)
        \* new_buffer_id, new_display, new_extmarks: the root handle of the new
        \* surface, then one handle per line
        new_extmarks == [j \in 1..Len(lines) |-> nvim.next_handle + j]
    IN  /\ nvim' = [nvim EXCEPT !.calls = Tail(@),
                        !.next_handle = @ + Len(lines) + 1,
                        !.surfaces = Append(@, lines)]
        /\ IF mgr.registered
           THEN /\ mgr' = [mgr EXCEPT !.no_draw = FALSE]
                /\ plist' = [plist EXCEPT
                       !.playlist_id_to_extmark_id =
                           BindExtmarks(KeptByNewBuffer(@), call.new_playlist,
                                        new_extmarks),
                       !.playlist_id_to_extra_data =
                           BindExtraData(KeptByNewBuffer(@), call.new_playlist,
                                         new_extmarks, use_markdown)]
                /\ did' = Nothing
           ELSE \* plugin.set_new_buffer: del self._mpv_instances[...] of a
                \* session that is not registered
                /\ mgr' = [mgr EXCEPT !.no_draw = FALSE]
                /\ did' = [Nothing EXCEPT !.raised = "KeyError"]
                /\ UNCHANGED plist

\* the editor runs the oldest callback given to nvim.async_call
RunPlaylistCall ==
    /\ nvim.calls # <<>>
    /\ Head(nvim.calls).fn \in {"_paste_playlist", "_new_playlist_buffer"}
    /\ IF Head(nvim.calls).fn = "_paste_playlist"
       THEN PastePlaylist(Head(nvim.calls))
       ELSE NewPlaylistBuffer(Head(nvim.calls))
    /\ UNCHANGED <<player, tasks>>
    /\ UNCHANGED protoVars
    /\ UNCHANGED delVars

\* ------------------------------------------------------ got-playlist events
\* The player loads the entry at position k, finds that it stands for `count`
\* entries, puts them in its place under new ids, and answers the playlist
\* request of the protocol: got-playlist reaches MpvPlaylist.update with the
\* playlist as it is then.  The inserted entries carry a title or none; the
\* first of them is the current one, or none is marked yet.
\* the ids the player gives to `count` new entries
Inserted(count) == player.next_id..(player.next_id + count - 1)

\* the player's playlist after the redirect
Redirected(k, count, titled, current) ==
    LET inserted == [j \in 1..count |->
                        Entry(player.next_id + j - 1, IF titled THEN "t" ELSE Null,
                              current /\ j = 1)]
        \* the player is at one entry only
        others == [j \in 1..Len(player.playlist) |->
                      [player.playlist[j] EXCEPT !.current = @ /\ ~current]]
    IN  SubSeq(others, 1, k - 1) \o inserted \o SubSeq(others, k + 1, Len(others))

\* the data of the got-playlist event: _playlist_new and the playlist reply
GotPlaylistData(k, count, titled, current) ==
    [new |-> [playlist_entry_id |-> player.playlist[k].id,
              playlist_insert_id |-> player.next_id,
              playlist_insert_num_entries |-> count],
     playlist |-> Redirected(k, count, titled, current)]

GotPlaylist(k, count, titled, current) ==
    /\ mgr.mpv
    /\ k \in 1..Len(player.playlist)
    /\ player' = [player EXCEPT
           !.playlist = Redirected(k, count, titled, current),
           !.next_id = @ + count,
           !.origin = [i \in DOMAIN @ \cup Inserted(count) |->
                          IF i \in DOMAIN @ THEN @[i] ELSE player.playlist[k].id]]
    /\ Update(GotPlaylistData(k, count, titled, current))
    /\ UNCHANGED tasks
    /\ UNCHANGED protoVars
    /\ UNCHANGED delVars

\* A session opened on n lines under an update action: MpvManager.__init__
\* and _init_extmarks bind player id i to the i-th handle of the editor; the
\* wrapper exists and the player holds the n entries it was given.
PlaylistSessions ==
    {[mgr |-> [mpv |-> TRUE, spawning |-> FALSE, transitioning |-> FALSE,
               registered |-> TRUE, update_action |-> action, no_draw |-> TRUE,
               last_playlist_entry_id |-> Null],
      plist |-> [playlist_id_to_extmark_id |-> [i \in 1..n |-> FirstHandle + i],
                 playlist_id_to_extra_data |->
                     [i \in 1..n |-> ExtraData(i, unmarkdown, unmarkdown)],
                 playlist_id_remap |-> <<>>,
                 updated_indices |-> <<>>,
                 new_extra_data |-> NoExtraData,
                 loaded_titles |-> <<>>],
      player |-> [playlist |-> [i \in 1..n |-> Entry(i, Null, i = 1)],
                  next_id |-> n + 1,
                  origin |-> <<>>],
      nvim |-> [calls |-> <<>>, next_handle |-> FirstHandle + n + 1,
                surfaces |-> <<>>, pasted |-> <<>>]] :
        action \in UpdateActions, n \in OpenedWith, unmarkdown \in BOOLEAN}

InitPlaylist ==
    /\ InitProtocol
    /\ del_in = Null
    /\ del_sent = <<>>
    /\ \E s \in PlaylistSessions :
           /\ mgr = s.mgr
           /\ plist = s.plist
           /\ player = s.player
           /\ nvim = s.nvim
    /\ tasks = <<>>
    /\ did = Nothing

PlaylistInBounds == player.next_id <= PlMaxIds + 1

NextPlaylist ==
    \/ \E k \in 1..Len(player.playlist),
          count \in 1..(PlMaxIds + 1 - player.next_id),
          titled \in BOOLEAN, current \in BOOLEAN :
           GotPlaylist(k, count, titled, current) /\ PlaylistInBounds'
    \/ RunPlaylistCall

SpecPlaylist == InitPlaylist /\ [][NextPlaylist]_vars

\* ------------------------------------------- start-file and file-loaded
\* start-file events the player sends in one run
LoadMaxFiles == 2

\* what the player reports as media-title and filename of a loaded file
LoadValues == {"a", "b"}

\* the value of last_playlist_entry_id before the first start-file
NoEntryId == -1

\* the handler of start-file, after _remember_playlist_id has stored the id:
\* MpvWrapper._on_start_file
OnStartFile(id) ==
    /\ mgr' = [mgr EXCEPT !.no_draw = TRUE, !.last_playlist_entry_id = id]
    /\ nvim' = [nvim EXCEPT !.calls =
           Append(@, [fn |-> "move_player_extmark", playlist_id |-> id])]
    /\ did' = Nothing
    /\ UNCHANGED <<plist, tasks>>

\* a _preamble that treats an unknown id like a known one
PreambleCase_NoCheck(id) ==
    IF id \in DOMAIN plist.playlist_id_remap THEN "remapped" ELSE "known"

\* which way _preamble goes for the id of the last start-file
PreambleCase(id) ==
    IF id \in DOMAIN plist.playlist_id_remap THEN "remapped"
    ELSE IF id \notin DOMAIN plist.playlist_id_to_extmark_id THEN "unknown"
    ELSE "known"

\* if write_markdown and not override_markdown
WantsRewrite(item, override_markdown) ==
    item.write_markdown /\ ~override_markdown

\* the handler of file-loaded: MpvWrapper._preamble
Preamble ==
    LET id == mgr.last_playlist_entry_id
        case == PreambleCase(id)
        current == IF case = "remapped" THEN plist.playlist_id_remap[id] ELSE id
        known == current \in DOMAIN plist.playlist_id_to_extra_data
        calls == IF case = "remapped"
                 THEN Append(nvim.calls,
                          [fn |-> "update_currently_playing",
                           playlist_from_mpv |-> mgr.data_playlist,
                           current_playlist_id |-> id,
                           redirected_playlist_id |-> current])
                 ELSE nvim.calls
    IN  IF case = "unknown"
        THEN /\ did' = [Nothing EXCEPT !.shown = <<"Playlist transition failed!">>]
             /\ mgr' = [mgr EXCEPT !.no_draw = FALSE]
             /\ UNCHANGED <<plist, nvim, tasks>>
        ELSE /\ nvim' = [nvim EXCEPT !.calls = calls]
             /\ IF ~known
                THEN \* self.manager.playlist.playlist_id_to_extra_data[...]
                     /\ did' = [Nothing EXCEPT !.raised = "KeyError"]
                     /\ UNCHANGED tasks
                ELSE /\ did' = Nothing
                     /\ tasks' =
                          IF WantsRewrite(plist.playlist_id_to_extra_data[current],
                                          case = "remapped")
                          THEN Append(tasks,
                                   [co |-> "update_markdown", pc |-> "created",
                                    link |-> plist.playlist_id_to_extra_data[current].filename,
                                    playlist_id |-> plist.playlist_id_to_extmark_id[current],
                                    future |-> 0, media_title |-> Null])
                          ELSE tasks
             /\ UNCHANGED <<mgr, plist>>

\* the player starts to load the entry with this id: {"event": "start-file",
\* "playlist_entry_id": id}
StartFile(id) ==
    /\ mgr.mpv
    /\ PlayerEvent("start-file")
    /\ OnStartFile(id)
    /\ player' = [player EXCEPT !.phase = "starting", !.started = @ + 1]

\* the player has loaded it and knows its title and name: {"event": "file-loaded"}
FileLoaded(title, filename) ==
    /\ mgr.mpv
    /\ player.phase = "starting"
    /\ PlayerEvent("file-loaded")
    /\ Preamble
    /\ player' = [player EXCEPT !.phase = "loaded",
                                !.reports = [n \in AwaitedNames |->
                                    IF n = "media-title" THEN title ELSE filename]]

\* MpvPlaylist.move_player_extmark, run by the editor: the player's display
\* moves to the line of the handle
MovePlayerExtmark(call) ==
    IF call.playlist_id \notin DOMAIN plist.playlist_id_to_extmark_id
    THEN \* self.playlist_id_to_extmark_id[playlist_id]
         /\ did' = [Nothing EXCEPT !.raised = "KeyError"]
         /\ nvim' = [nvim EXCEPT !.calls = Tail(@)]
         /\ UNCHANGED mgr
    ELSE /\ nvim' = [nvim EXCEPT !.calls = Tail(@),
                         !.indicator = plist.playlist_id_to_extmark_id[call.playlist_id]]
         /\ mgr' = [mgr EXCEPT !.no_draw = FALSE]
         /\ did' = Nothing

\* current_title: the title of the entry in the playlist, or the one recorded
\* for its filename
CurrentTitle(call) ==
    LET hits == {k \in 1..Len(call.playlist_from_mpv) :
                    call.playlist_from_mpv[k].id = call.current_playlist_id}
        item == call.playlist_from_mpv[Min(hits)]
    IN  IF hits = {} THEN Null
        ELSE IF item.title # Null THEN item.title
        ELSE Get(plist.loaded_titles, item.filename)

\* MpvPlaylist.update_currently_playing, run by the editor
UpdateCurrentlyPlaying(call) ==
    LET \* extmark_id = self.playlist_id_to_extmark_id.get(redirected_playlist_id)
        bound == call.redirected_playlist_id \in DOMAIN plist.playlist_id_to_extmark_id
    IN  /\ nvim' = [nvim EXCEPT !.calls = Tail(@),
                        !.playing =
                            IF CurrentTitle(call) # Null /\ bound
                            THEN <<plist.playlist_id_to_extmark_id[call.redirected_playlist_id],
                                   CurrentTitle(call)>>
                            ELSE @]
        /\ did' = [Nothing EXCEPT !.shown =
               IF CurrentTitle(call) # Null /\ ~bound
               THEN <<"Error updating currently playing title!">> ELSE <<>>]
        /\ UNCHANGED mgr

\* write_line_of_playlist_item, run by the editor: the line of the handle is
\* rewritten
WriteLine(call) ==
    /\ nvim' = [nvim EXCEPT !.calls = Tail(@),
                    !.written = Append(@, <<call.playlist_id, call.text>>)]
    /\ did' = Nothing
    /\ UNCHANGED mgr

\* the editor runs the oldest callback given to nvim.async_call
RunLoadCall ==
    /\ nvim.calls # <<>>
    /\ LET call == Head(nvim.calls)
       IN  CASE call.fn = "move_player_extmark" -> MovePlayerExtmark(call)
             [] call.fn = "update_currently_playing" -> UpdateCurrentlyPlaying(call)
             [] call.fn = "write_line_of_playlist_item" -> WriteLine(call)
    /\ UNCHANGED <<plist, player, tasks>>
    /\ UNCHANGED protoVars
    /\ UNCHANGED delVars

\* ------------------------------------------------ MpvWrapper.update_markdown
\* the coroutine runs up to its first suspension:
\* media_title = await self.protocol.wait_property("media-title")
MarkdownAsksTitle(t) ==
    /\ tasks[t].co = "update_markdown"
    /\ tasks[t].pc = "created"
    /\ WaitProperty("media-title", FALSE)
    /\ tasks' = [tasks EXCEPT ![t].pc = "media-title", ![t].future = Len(futures) + 1]
    /\ did' = Nothing
    /\ UNCHANGED <<mgr, plist, player, nvim>>

\* the title has arrived: filename = await self.protocol.wait_property("filename")
MarkdownAsksFilename(t) ==
    /\ tasks[t].co = "update_markdown"
    /\ tasks[t].pc = "media-title"
    /\ futures[tasks[t].future].state = "done"
    /\ WaitProperty("filename", FALSE)
    /\ tasks' = [tasks EXCEPT ![t].pc = "filename",
                              ![t].media_title = futures[tasks[t].future].result,
                              ![t].future = Len(futures) + 1]
    /\ did' = Nothing
    /\ UNCHANGED <<mgr, plist, player, nvim>>

\* an update_markdown that rewrites the line whatever the player reports
Rewrites_Always(media_title, filename) == TRUE

\* if media_title == filename: return
Rewrites(media_title, filename) == media_title # filename

\* the filename has arrived: the line of the item is rewritten as a markdown
\* link, or left alone
MarkdownFinishes(t) ==
    /\ tasks[t].co = "update_markdown"
    /\ tasks[t].pc = "filename"
    /\ futures[tasks[t].future].state = "done"
    /\ nvim' = [nvim EXCEPT !.calls =
           IF Rewrites(tasks[t].media_title, futures[tasks[t].future].result)
           THEN Append(@, [fn |-> "write_line_of_playlist_item",
                           playlist_id |-> tasks[t].playlist_id,
                           text |-> <<tasks[t].media_title, tasks[t].link>>])
           ELSE @]
    /\ tasks' = RemoveAt(tasks, t)
    /\ did' = Nothing
    /\ UNCHANGED <<mgr, plist, player>>
    /\ UNCHANGED protoVars
    /\ UNCHANGED delVars

\* the player answers a get_property with what it reports for that property
PlayerAnswers(i) ==
    /\ wire[i].rid \in DOMAIN waiting_properties
    /\ Reply(i, FALSE, player.reports[waiting_properties[wire[i].rid].name])
    /\ UNCHANGED sessionVars

\* Sessions that receive load events: a session opened on one item; and a
\* session opened on two items under Stay whose second item was redirected to
\* an entry with id 3, while the player also holds an entry with id 4 that was
\* added behind the session's back.  Item 1 asks for a markdown rewrite or not.
LoadSessions ==
    {[mgr |-> [mpv |-> TRUE, spawning |-> FALSE, transitioning |-> FALSE,
               registered |-> TRUE, update_action |-> "stay", no_draw |-> TRUE,
               last_playlist_entry_id |-> NoEntryId,
               data_playlist |-> IF single THEN <<Entry(1, Null, TRUE)>>
                                 ELSE <<Entry(1, Null, TRUE), Entry(3, "t", FALSE),
                                        Entry(4, Null, FALSE)>>],
      plist |-> [playlist_id_to_extmark_id |->
                     [i \in (IF single THEN {1} ELSE {1, 2}) |-> FirstHandle + i],
                 playlist_id_to_extra_data |->
                     [i \in (IF single THEN {1} ELSE {1, 2}) |->
                         ExtraData(i, i = 1 /\ rewrite, rewrite)],
                 playlist_id_remap |-> IF single THEN <<>> ELSE (3 :> 2),
                 updated_indices |-> IF single THEN <<>> ELSE (2 :> 3),
                 new_extra_data |-> NoExtraData,
                 loaded_titles |-> IF single THEN <<>> ELSE (3 :> "t")],
      player |-> [playlist |-> IF single THEN <<Entry(1, Null, TRUE)>>
                               ELSE <<Entry(1, Null, TRUE), Entry(3, "t", FALSE),
                                      Entry(4, Null, FALSE)>>,
                  next_id |-> IF single THEN 2 ELSE 5,
                  origin |-> IF single THEN <<>> ELSE (3 :> 2),
                  phase |-> "idle", started |-> 0,
                  reports |-> [n \in AwaitedNames |-> Null]],
      nvim |-> [calls |-> <<>>, next_handle |-> FirstHandle + 3,
                surfaces |-> <<>>, pasted |-> <<>>,
                indicator |-> Null, playing |-> Null, written |-> <<>>]] :
        single \in BOOLEAN, rewrite \in BOOLEAN}

InitLoad ==
    /\ InitProtocol
    /\ del_in = Null
    /\ del_sent = <<>>
    /\ \E s \in LoadSessions :
           /\ mgr = s.mgr
           /\ plist = s.plist
           /\ player = s.player
           /\ nvim = s.nvim
    /\ tasks = <<>>
    /\ did = Nothing

NextLoad ==
    \/ \E k \in 1..Len(player.playlist) :
           /\ player.started < LoadMaxFiles
           /\ StartFile(player.playlist[k].id)
    \/ \E title \in LoadValues, filename \in LoadValues : FileLoaded(title, filename)
    \/ RunLoadCall
    \/ \E t \in 1..Len(tasks) : MarkdownAsksTitle(t)
    \/ \E t \in 1..Len(tasks) : MarkdownAsksFilename(t)
    \/ \E t \in 1..Len(tasks) : MarkdownFinishes(t)
    \/ \E i \in 1..Len(wire) : PlayerAnswers(i)

SpecLoad == InitLoad /\ [][NextLoad]_vars

\* the editor runs every callback it was handed
SpecLoadFair == SpecLoad /\ WF_vars(RunLoadCall)

\* ==========================================================================
\* MpvManager (rplugin/python3/neovimpv/mpv.py): spawn, the command surface,
\* close.  The protocol variables stand for manager.mpv.protocol.
\* ==========================================================================
\* command-surface calls made on one session
MgrMaxCalls == 2
\* the most keypresses one send_keypress forwards (its count argument)
MgrMaxCount == 2
\* the number of lines a session is opened on
MgrOpened == {1, 2}

\* the properties MpvWrapper._add_events always observes
ObservedAlways == <<"pause", "playlist", "video-format">>

NotReady == "Mpv not ready yet!"
AlreadyShowing == "Already attempting to show video!"
SetIsClosed == "Could not set playlist index! Mpv is closed."
ForwardIsClosed == "Could not forward deletions! Mpv is closed."
SmallPlaylist == "Refusing to set playlist index on small playlist!"
NoSuchItem == "Could not find mpv item!"
SpawnFailed == "MpvError"

\* a suspended coroutine of the manager
Task(co, pc, arg, future) == [co |-> co, pc |-> pc, arg |-> arg, future |-> future]

\* a manager that takes itself to have a player whatever self.mpv is
NoPlayer_Never == FALSE

\* if self.mpv is None
NoPlayer == ~mgr.mpv

\* one call more was made on the session
Called == [mgr EXCEPT !.calls = @ + 1]

\* the protocol is left alone
ProtocolIdle ==
    /\ out' = Quiet
    /\ UNCHANGED <<transport, data, properties, reverse_properties, last_property,
                   waiting_properties, ignore_errors, waiting_events,
                   playlist_request, futures, wire>>
    /\ UNCHANGED delVars

\* self.plugin.show_error(msg); return
Rejected(msg) ==
    /\ ProtocolIdle
    /\ did' = [Nothing EXCEPT !.shown = <<msg>>]

\* cmds are handed to protocol.send_command one after the other, with the
\* default request id; did.sent holds the ones written to the transport
SendAll(cmds, ign) ==
    /\ wire' = IF Closing THEN wire
               ELSE wire \o [i \in 1..Len(cmds) |-> [rid |-> DefaultRequestId, tag |-> ign]]
    /\ ignore_errors' = IF Closing \/ ~ign THEN ignore_errors
                        ELSE ignore_errors \o [i \in 1..Len(cmds) |-> DefaultRequestId]
    /\ out' = Quiet
    /\ did' = [Nothing EXCEPT !.sent = IF Closing THEN <<>> ELSE cmds]
    /\ UNCHANGED <<transport, data, properties, reverse_properties, last_property,
                   waiting_properties, waiting_events, playlist_request, futures>>
    /\ UNCHANGED delVars

\* coroutines that wait for _not_spawning_player and can go on: they are woken
\* by spawn's set() and run before anything read from a socket is handled
Woken == {t \in 1..Len(tasks) : tasks[t].pc = "held" /\ ~mgr.spawning}

\* the loop has no woken coroutine to run first
LoopIdle == mgr.started /\ Woken = {}

\* a call arrives from the editor
CallArrives == LoopIdle /\ mgr.calls < MgrMaxCalls

\* ------------------------------------------------------------------- spawn
\* create_managed_mpv: plugin.nvim.loop.create_task(target.spawn()); spawn runs
\* up to `await create_mpv(...)`
SpawnStarts ==
    /\ ~mgr.started
    /\ mgr' = [mgr EXCEPT !.started = TRUE, !.spawning = TRUE]
    /\ ProtocolIdle
    /\ did' = Nothing
    /\ UNCHANGED <<plist, player, nvim, tasks>>

\* the loadfile commands of MpvWrapper._load_playlist
LoadFiles ==
    [i \in 1..Cardinality(DOMAIN plist.playlist_id_to_extra_data) |->
        <<"loadfile", plist.playlist_id_to_extra_data[i].filename>>]

\* the observe_property commands of MpvWrapper._add_events
Observes == [i \in 1..Len(ObservedAlways) |-> <<"observe_property", ObservedAlways[i]>>]

\* create_mpv has returned a connected protocol: self.mpv = MpvWrapper(self,
\* protocol), whose constructor observes and loads; then the event is set
SpawnSucceeds ==
    /\ mgr.spawning
    /\ mgr' = [mgr EXCEPT !.mpv = TRUE, !.spawning = FALSE, !.no_draw = TRUE,
                          !.data_playlist = <<>>]
    /\ transport' = "open"
    /\ data' = [n \in DOMAIN data |-> Null]
    /\ properties' = [n \in Range(ObservedAlways) |->
                         FirstId - 1 + CHOOSE i \in 1..Len(ObservedAlways) : ObservedAlways[i] = n]
    /\ reverse_properties' = [r \in FirstId..(FirstId + Len(ObservedAlways) - 1) |->
                                 ObservedAlways[r - FirstId + 1]]
    /\ last_property' = FirstId + Len(ObservedAlways)
    /\ waiting_properties' = <<>>
    /\ ignore_errors' = <<>>
    /\ waiting_events' = [e \in WaitNames |-> <<>>]
    /\ playlist_request' = NoPlaylistRequest
    /\ wire' = [i \in 1..Len(Observes \o LoadFiles) |-> [rid |-> DefaultRequestId, tag |-> FALSE]]
    /\ out' = Quiet
    /\ did' = [Nothing EXCEPT !.sent = Observes \o LoadFiles]
    /\ player' = [player EXCEPT !.phase = "running"]
    /\ UNCHANGED <<futures, plist, nvim, tasks>>
    /\ UNCHANGED delVars

\* a spawn that returns from its except branch without setting the event
AfterFailedSpawn_EventClear(m) == [m EXCEPT !.mpv = FALSE]

\* self.mpv = None; self._not_spawning_player.set()
AfterFailedSpawn(m) == [m EXCEPT !.mpv = FALSE, !.spawning = FALSE]

\* create_mpv raised MpvError (the subprocess wrote to its stdout inside the
\* read window, or the connection was refused): show_error(e.args[0]), then
\* the above
SpawnFails ==
    /\ mgr.spawning
    /\ mgr' = AfterFailedSpawn(mgr)
    /\ Rejected(SpawnFailed)
    /\ UNCHANGED <<plist, player, nvim, tasks>>

\* the player reports its playlist: property-change of the observed property
\* "playlist" is stored in protocol.data
PlaylistReported ==
    /\ LoopIdle
    /\ mgr.mpv
    /\ transport = "open"
    /\ mgr.data_playlist # player.playlist
    /\ mgr' = [mgr EXCEPT !.data_playlist = player.playlist]
    /\ ProtocolIdle
    /\ did' = Nothing
    /\ UNCHANGED <<plist, player, nvim, tasks>>

\* ------------------------------------------------------- the command surface
\* MpvManager.send_command
MgrSendCommand ==
    /\ CallArrives
    /\ mgr' = Called
    /\ IF NoPlayer THEN Rejected(NotReady)
       ELSE SendAll(<< <<"command">> >>, FALSE)
    /\ UNCHANGED <<plist, player, nvim, tasks>>

\* MpvManager.set_property
MgrSetProperty(n, v, update) ==
    /\ CallArrives
    /\ mgr' = Called
    /\ IF NoPlayer THEN Rejected(NotReady)
       ELSE /\ SetProperty(n, v, update, FALSE)
            /\ did' = [Nothing EXCEPT !.sent =
                          IF Closing THEN <<>> ELSE << <<"set_property", n, v>> >>]
    /\ UNCHANGED <<plist, player, nvim, tasks>>

\* MpvManager.wait_property, up to its suspension
MgrWaitProperty(n) ==
    /\ CallArrives
    /\ mgr' = Called
    /\ IF NoPlayer
       THEN /\ Rejected(NotReady)
            /\ UNCHANGED tasks
       ELSE /\ WaitProperty(n, FALSE)
            /\ did' = [Nothing EXCEPT !.sent =
                          IF Closing THEN <<>> ELSE << <<"get_property", n>> >>]
            /\ tasks' = Append(tasks, Task("wait_property", "awaiting", n, Len(futures) + 1))
    /\ UNCHANGED <<plist, player, nvim>>

\* the awaited reply has arrived: wait_property returns it
WaitPropertyReturns(t) ==
    /\ LoopIdle
    /\ tasks[t].co = "wait_property"
    /\ futures[tasks[t].future].state # "pending"
    /\ tasks' = RemoveAt(tasks, t)
    /\ ProtocolIdle
    /\ did' = [Nothing EXCEPT !.raised =
                  IF futures[tasks[t].future].state = "cancelled"
                  THEN "CancelledError" ELSE Null]
    /\ UNCHANGED <<mgr, plist, player, nvim>>

\* MpvManager.send_keypress with a key other than q, up to asyncio.sleep
MgrSendKeypress(count) ==
    /\ CallArrives
    /\ mgr' = Called
    /\ IF NoPlayer
       THEN /\ Rejected(NotReady)
            /\ UNCHANGED tasks
       ELSE /\ SendAll([i \in 1..count |-> <<"keypress">>], FALSE)
            /\ tasks' = Append(tasks, Task("send_keypress", "sleeping", count, 0))
    /\ UNCHANGED <<plist, player, nvim>>

\* the delay is over: self.mpv.protocol.fetch_subscribed()
KeypressFetches(t) ==
    /\ LoopIdle
    /\ tasks[t].co = "send_keypress"
    /\ FetchSubscribed
    /\ tasks' = RemoveAt(tasks, t)
    /\ did' = [Nothing EXCEPT !.sent =
                  IF Closing THEN <<>>
                  ELSE [i \in 1..Cardinality(DOMAIN properties) |-> <<"get_property">>]]
    /\ UNCHANGED <<mgr, plist, player, nvim>>

\* MpvManager.toggle_pause
MgrTogglePause ==
    /\ CallArrives
    /\ mgr' = Called
    /\ IF NoPlayer THEN Rejected(NotReady)
       ELSE LET v == IF data["pause"] \in {Null, "False"} THEN True ELSE "False"
            IN  /\ SetProperty("pause", v, FALSE, FALSE)
                /\ did' = [Nothing EXCEPT !.sent =
                       IF Closing THEN <<>> ELSE << <<"set_property", "pause", v>> >>]
    /\ UNCHANGED <<plist, player, nvim, tasks>>

\* MpvManager.toggle_video, up to its first suspension
MgrToggleVideo ==
    /\ CallArrives
    /\ mgr' = Called
    /\ IF mgr.transitioning
       THEN /\ Rejected(AlreadyShowing)
            /\ UNCHANGED tasks
       ELSE IF NoPlayer
       THEN /\ Rejected(NotReady)
            /\ UNCHANGED tasks
       ELSE /\ WaitProperty("track-list", FALSE)
            /\ did' = [Nothing EXCEPT !.sent =
                          IF Closing THEN <<>> ELSE << <<"get_property", "track-list">> >>]
            /\ tasks' = Append(tasks, Task("toggle_video", "track-list", Null, Len(futures) + 1))
    /\ UNCHANGED <<plist, player, nvim>>

\* ------------------------------------- MpvPlaylist.set_current_by_playlist_extmark
\* playlist_id = next((i for i, j in playlist_id_to_extmark_id.items()
\*                     if j == try_remap), None), where try_remap is extmark_id
\* whether or not a value of playlist_id_remap equals it
PlayerIdOf(extmark_id) ==
    LET ids == {i \in DOMAIN plist.playlist_id_to_extmark_id :
                   plist.playlist_id_to_extmark_id[i] = extmark_id}
    IN  IF ids = {} THEN NoEntryId ELSE Min(ids)

\* a set_current_by_playlist_extmark that does not look into _updated_indices
Adjusted_Never(playlist_id) == playlist_id

\* if playlist_id in self._updated_indices: playlist_id = self._updated_indices[playlist_id]
Adjusted(playlist_id) ==
    IF playlist_id \in DOMAIN plist.updated_indices
    THEN plist.updated_indices[playlist_id] ELSE playlist_id

\* the index, counted from 0, of the first entry of the live playlist with that
\* id; -1 for None
PlaylistIndex(playlist, playlist_id) ==
    LET at == {k \in 1..Len(playlist) : playlist[k].id = playlist_id}
    IN  IF at = {} THEN -1 ELSE Min(at) - 1

\* a set_current_by_playlist_extmark without the check of the playlist's length
TooSmall_Never(playlist) == FALSE

\* if len(playlist) <= 1
TooSmall(playlist) == Len(playlist) <= 1

SetCurrent(extmark_id) ==
    LET playlist == mgr.data_playlist
        index == PlaylistIndex(playlist, Adjusted(PlayerIdOf(extmark_id)))
    IN  IF TooSmall(playlist) THEN Rejected(SmallPlaylist)
        ELSE IF index = -1 THEN Rejected(NoSuchItem)
        ELSE SendAll(<< <<"playlist-play-index", index>> >>, FALSE)

\* ------------------------------------------- MpvPlaylist.forward_deletions
\* the session forward_deletions works on
DeletionSession ==
    [playlist |-> [k \in 1..Len(mgr.data_playlist) |-> mgr.data_playlist[k].id],
     playlist_id_to_extmark_id |-> plist.playlist_id_to_extmark_id,
     playlist_id_remap |-> plist.playlist_id_remap]

Deletions(removed) ==
    LET indices == ForwardDeletionsSends(DeletionSession, removed)
    IN  SendAll([i \in 1..Len(indices) |-> <<"playlist-remove", indices[i]>>], FALSE)

\* ------------------------- the two commands that wait for the spawn to finish
\* what follows `await self._not_spawning_player.wait()`
AfterSpawn(co, arg) ==
    IF co = "set_current"
    THEN IF NoPlayer THEN Rejected(SetIsClosed) ELSE SetCurrent(arg)
    ELSE IF NoPlayer THEN Rejected(ForwardIsClosed) ELSE Deletions(arg)

\* the coroutine is created and runs up to the wait, or through it when the
\* event is set
Issue(co, arg) ==
    /\ CallArrives
    /\ mgr' = Called
    /\ IF mgr.spawning
       THEN /\ tasks' = Append(tasks, Task(co, "held", arg, 0))
            /\ ProtocolIdle
            /\ did' = Nothing
       ELSE /\ AfterSpawn(co, arg)
            /\ UNCHANGED tasks
    /\ UNCHANGED <<plist, player, nvim>>

\* MpvManager.set_current_by_playlist_extmark
MgrSetCurrent(extmark_id) == Issue("set_current", extmark_id)

\* MpvManager.forward_deletions
MgrForwardDeletions(removed) == Issue("forward_deletions", removed)

\* the event was set: the first coroutine waiting for it goes on
RunHeld ==
    /\ Woken # {}
    /\ LET t == Min(Woken)
       IN  /\ tasks[t].co \in {"set_current", "forward_deletions"}
           /\ AfterSpawn(tasks[t].co, tasks[t].arg)
           /\ tasks' = RemoveAt(tasks, t)
    /\ UNCHANGED <<mgr, plist, player, nvim>>

\* -------------------------------------------------------------------- close
\* MpvManager.close: create_task(self.close_async()); the coroutine runs up to
\* the wait, or through it when the event is set
CloseAsyncBody ==
    /\ IF NoPlayer
       THEN /\ ProtocolIdle
            /\ did' = Nothing
       ELSE SendAll(<< <<"quit">> >>, FALSE)
    /\ nvim' = [nvim EXCEPT !.calls = Append(@, [fn |-> "remove_mpv_instance"])]

\* MpvClose, or send_keypress with q
MgrClose ==
    /\ CallArrives
    /\ mgr' = Called
    /\ IF mgr.spawning
       THEN /\ tasks' = Append(tasks, Task("close_async", "held", Null, 0))
            /\ ProtocolIdle
            /\ did' = Nothing
            /\ UNCHANGED nvim
       ELSE /\ CloseAsyncBody
            /\ UNCHANGED tasks
    /\ UNCHANGED <<plist, player>>

\* a close_async that waited for the spawn goes on
RunHeldClose ==
    /\ Woken # {}
    /\ LET t == Min(Woken)
       IN  /\ tasks[t].co = "close_async"
           /\ CloseAsyncBody
           /\ tasks' = RemoveAt(tasks, t)
    /\ UNCHANGED <<mgr, plist, player>>

\* the transport is lost; unless connection_lost raises first, the wrapper's
\* handler of "close" calls manager.close()
MgrConnectionLost ==
    /\ LoopIdle
    /\ mgr.mpv
    /\ ConnectionLost
    /\ IF RequestLoopRaises
       THEN UNCHANGED tasks
       ELSE tasks' = Append(tasks, Task("close_async", "held", Null, 0))
    /\ did' = Nothing
    /\ player' = [player EXCEPT !.phase = "gone"]
    /\ UNCHANGED <<mgr, plist, nvim>>

\* Neovimpv.remove_mpv_instance, run by the editor
RemoveMpvInstance ==
    /\ LoopIdle
    /\ nvim.calls # <<>>
    /\ Head(nvim.calls).fn = "remove_mpv_instance"
    /\ nvim' = [nvim EXCEPT !.calls = Tail(@)]
    /\ mgr' = [mgr EXCEPT !.registered = FALSE]
    /\ ProtocolIdle
    /\ did' = Nothing
    /\ UNCHANGED <<plist, player, tasks>>

\* the player answers a get_property somebody waits for
MgrAnswers(i, d) ==
    /\ LoopIdle
    /\ wire[i].rid \in DOMAIN waiting_properties
    /\ waiting_properties[wire[i].rid].type = GET
    /\ Reply(i, FALSE, d)
    /\ did' = Nothing
    /\ UNCHANGED <<mgr, plist, player, nvim, tasks>>

\* ------------------------------------------------------------ specification
\* a session just constructed on n lines: player ids 1..n, bound to the
\* handles create_player returned
ManagerSessions ==
    {[mgr |-> [mpv |-> FALSE, spawning |-> FALSE, transitioning |-> FALSE,
               registered |-> TRUE, update_action |-> "stay", no_draw |-> TRUE,
               last_playlist_entry_id |-> NoEntryId, data_playlist |-> <<>>,
               started |-> FALSE, calls |-> 0],
      plist |-> [playlist_id_to_extmark_id |-> [i \in 1..n |-> FirstHandle + i],
                 playlist_id_to_extra_data |-> [i \in 1..n |-> ExtraData(i, FALSE, FALSE)],
                 playlist_id_remap |-> <<>>,
                 updated_indices |-> <<>>,
                 new_extra_data |-> NoExtraData,
                 loaded_titles |-> <<>>],
      player |-> [playlist |-> [i \in 1..n |-> Entry(i, Null, i = 1)],
                  next_id |-> n + 1, origin |-> <<>>, phase |-> "none"],
      nvim |-> [calls |-> <<>>, next_handle |-> FirstHandle + n + 1]] :
        n \in MgrOpened}

InitManager ==
    /\ transport = "none"
    /\ data = [n \in Names \cup AwaitedNames \cup RelaunchNames |-> Null]
    /\ properties = <<>>
    /\ reverse_properties = <<>>
    /\ last_property = FirstId
    /\ waiting_properties = <<>>
    /\ ignore_errors = <<>>
    /\ waiting_events = [e \in WaitNames |-> <<>>]
    /\ playlist_request = NoPlaylistRequest
    /\ futures = <<>>
    /\ wire = <<>>
    /\ out = Quiet
    /\ del_in = Null
    /\ del_sent = <<>>
    /\ \E s \in ManagerSessions :
           /\ mgr = s.mgr
           /\ plist = s.plist
           /\ player = s.player
           /\ nvim = s.nvim
    /\ tasks = <<>>
    /\ did = Nothing

\* the handles a set-current or a forward-deletions may name: the session's
\* own and one it never had
MgrHandles == {FirstHandle + i : i \in 1..3}

NextManager ==
    \/ SpawnStarts
    \/ SpawnSucceeds
    \/ SpawnFails
    \/ PlaylistReported
    \/ MgrSendCommand
    \/ \E n \in Names, v \in Values, update \in BOOLEAN : MgrSetProperty(n, v, update)
    \/ \E n \in Names : MgrWaitProperty(n)
    \/ \E t \in 1..Len(tasks) : WaitPropertyReturns(t)
    \/ \E count \in 1..MgrMaxCount : MgrSendKeypress(count)
    \/ \E t \in 1..Len(tasks) : KeypressFetches(t)
    \/ MgrTogglePause
    \/ MgrToggleVideo
    \/ \E extmark_id \in MgrHandles : MgrSetCurrent(extmark_id)
    \/ \E removed \in SUBSET MgrHandles : removed # {} /\ MgrForwardDeletions(removed)
    \/ RunHeld
    \/ MgrClose
    \/ RunHeldClose
    \/ MgrConnectionLost
    \/ RemoveMpvInstance
    \/ \E i \in 1..Len(wire), d \in Values : MgrAnswers(i, d)

SpecManager == InitManager /\ [][NextManager]_vars

\* ==========================================================================
\* set_current_by_playlist_extmark on a session with a history of got-playlist
\* events and removed entries
\* ==========================================================================
\* ids the player hands out in one session of this specification
JumpMaxIds == 3
\* jump commands written and not answered
JumpMaxWire == 1

\* the sessions of got-playlist events, with the playlist the player reported
\* when it had loaded the lines
JumpSessions ==
    {[s EXCEPT !.mgr = [data_playlist |-> s.player.playlist] @@ s.mgr] :
        s \in PlaylistSessions}

InitJump ==
    /\ InitProtocol
    /\ del_in = Null
    /\ del_sent = <<>>
    /\ \E s \in JumpSessions :
           /\ mgr = s.mgr
           /\ plist = s.plist
           /\ player = s.player
           /\ nvim = s.nvim
    /\ tasks = <<>>
    /\ did = Nothing

\* property-change of the observed property "playlist"
JumpPlaylistReported ==
    /\ mgr.data_playlist # player.playlist
    /\ mgr' = [mgr EXCEPT !.data_playlist = player.playlist]
    /\ ProtocolIdle
    /\ did' = Nothing
    /\ UNCHANGED <<plist, player, nvim, tasks>>

\* the player drops the entry at position k of its playlist (a playlist-remove
\* it was sent, or a file it could not load)
JumpEntryRemoved(k) ==
    /\ Len(player.playlist) > 1
    /\ player' = [player EXCEPT !.playlist = RemoveAt(@, k)]
    /\ ProtocolIdle
    /\ did' = Nothing
    /\ UNCHANGED <<mgr, plist, nvim, tasks>>

\* MpvManager.set_current_by_playlist_extmark on a session that is not spawning
JumpSetCurrent(extmark_id) ==
    /\ mgr.mpv
    /\ SetCurrent(extmark_id)
    /\ UNCHANGED <<mgr, plist, player, nvim, tasks>>

\* the handles a set-current may name
JumpHandles == FirstHandle..(FirstHandle + JumpMaxIds + 2)

NextJump ==
    \/ \E k \in 1..Len(player.playlist),
          count \in 1..(JumpMaxIds + 1 - player.next_id),
          titled \in BOOLEAN, current \in BOOLEAN :
           GotPlaylist(k, count, titled, current)
    \/ RunPlaylistCall
    \/ JumpPlaylistReported
    \/ \E k \in 1..Len(player.playlist) : JumpEntryRemoved(k)
    \/ \E extmark_id \in JumpHandles :
           JumpSetCurrent(extmark_id) /\ Len(wire') <= JumpMaxWire

SpecJump == InitJump /\ [][NextJump]_vars

\* ==========================================================================
\* The update action of a new session (mpv.py: create_managed_mpv,
\* MpvManager.__init__, _try_smart_youtube, parse_mpvopen_args)
\* ==========================================================================
\* lines an MpvOpen command is given
ActMaxLines == 2

\* the digits a reference is spelt with
Digits == {"1", "5"}

\* the references on the lines, as sequences of the pieces that
\* YTDL_YOUTUBE_SEARCH tells apart
Filenames ==
    {<<"video.mp4">>,
     <<"ytdl://", "watch">>,
     <<"ytdl://", "ytsearch", ":", "query">>,
     <<"ytdl://", "ytsearch", "1", ":", "query">>,
     <<"ytdl://", "ytsearch", "5", ":", "query">>,
     <<"ytdl://", "ytsearch", "1", "5", ":", "query">>,
     <<"ytdl://", " ", " ", "ytsearch", ":", "query">>,
     <<"ytdl://", "ytsearch", "query">>,
     <<" ", "ytdl://", "ytsearch", ":", "query">>}

\* the words of an MpvOpen command before "--"
LocalWords == {"stay", "paste", "new", "video"}

RECURSIVE SkipSpaces(_)
\* \s*
SkipSpaces(s) ==
    IF s # <<>> /\ Head(s) = " " THEN SkipSpaces(Tail(s)) ELSE s

RECURSIVE TakeDigits(_)
\* (\d*)
TakeDigits(s) ==
    IF s # <<>> /\ Head(s) \in Digits
    THEN <<Head(s)>> \o TakeDigits(Tail(s))
    ELSE <<>>

NoMatch == [matched |-> FALSE, group |-> <<>>]

\* YTDL_YOUTUBE_SEARCH.match(filename) for ^ytdl://\s*ytsearch(\d*): with
\* group(1)
YtdlYoutubeSearch(filename) ==
    IF filename = <<>> \/ Head(filename) # "ytdl://" THEN NoMatch
    ELSE LET s == SkipSpaces(Tail(filename)) IN
         IF s = <<>> \/ Head(s) # "ytsearch" THEN NoMatch
         ELSE LET group == TakeDigits(Tail(s))
                  rest == SubSeq(Tail(s), Len(group) + 1, Len(Tail(s)))
              IN  IF rest # <<>> /\ Head(rest) = ":"
                  THEN [matched |-> TRUE, group |-> group]
                  ELSE NoMatch

\* MpvManager._try_smart_youtube
TrySmartYoutube(filename) ==
    LET is_search == YtdlYoutubeSearch(filename) IN
    IF is_search.matched /\ is_search.group \in {<<>>, <<"1">>}
    THEN "paste"
    ELSE "new_one"

\* parse_mpvopen_args: the update action the local words name, Null for none;
\* "new" on a playlist of another length than one raises (the message of the
\* ValueError takes len() of an integer)
ParseRaises(local_args, playlist_length) ==
    /\ "stay" \notin local_args
    /\ "paste" \notin local_args
    /\ "new" \in local_args
    /\ playlist_length # 1

ParseMpvopenArgs(local_args) ==
    IF "stay" \in local_args THEN "stay"
    ELSE IF "paste" \in local_args THEN "paste"
    ELSE IF "new" \in local_args THEN "new_one"
    ELSE Null

\* MpvManager.__init__: the configured action, the smart choice for a
\* singleton, then the override of the command
UpdateActionOf(plugin, filenames, local_args) ==
    LET smart == IF Len(filenames) = 1 /\ plugin.smart_youtube
                 THEN TrySmartYoutube(filenames[1])
                 ELSE plugin.on_playlist_update
        new_update_action == ParseMpvopenArgs(local_args)
    IN  IF new_update_action = Null THEN smart ELSE new_update_action

\* create_managed_mpv on the lines and words of the command
CreateManagedMpv ==
    /\ ~mgr.created
    /\ did.raised = Null
    /\ IF ParseRaises(nvim.local_args, Len(nvim.filenames))
       THEN /\ did' = [did EXCEPT !.raised = "TypeError"]
            /\ mgr' = mgr
       ELSE /\ mgr' = [mgr EXCEPT
                        !.created = TRUE,
                        !.update_action =
                            UpdateActionOf(nvim, nvim.filenames, nvim.local_args)]
            /\ did' = [did EXCEPT !.shown = <<"create_player">>]
    /\ ProtocolIdle
    /\ UNCHANGED <<plist, player, nvim, tasks>>

\* every configuration of the plugin and every MpvOpen command
InitAction ==
    /\ transport = "none"
    /\ data = [n \in Names \cup AwaitedNames \cup RelaunchNames |-> Null]
    /\ properties = <<>>
    /\ reverse_properties = <<>>
    /\ last_property = FirstId
    /\ waiting_properties = <<>>
    /\ ignore_errors = <<>>
    /\ waiting_events = [e \in WaitNames |-> <<>>]
    /\ playlist_request = NoPlaylistRequest
    /\ futures = <<>>
    /\ wire = <<>>
    /\ out = Quiet
    /\ del_in = Null
    /\ del_sent = <<>>
    /\ mgr = [created |-> FALSE, update_action |-> Null]
    /\ plist = Null
    /\ player = Null
    /\ \E on_playlist_update \in UpdateActions, smart_youtube \in BOOLEAN,
          n \in 1..ActMaxLines, local_args \in SUBSET LocalWords :
           \E filenames \in [1..n -> Filenames] :
               nvim = [on_playlist_update |-> on_playlist_update,
                       smart_youtube |-> smart_youtube,
                       filenames |-> filenames,
                       local_args |-> local_args]
    /\ tasks = <<>>
    /\ did = Nothing

NextAction == CreateManagedMpv

SpecAction == InitAction /\ [][NextAction]_vars

\* ==========================================================================
\* Load events on a session with a history of got-playlist events
\* ==========================================================================
\* ids the player hands out in one session of this specification
RecMaxIds == 3
\* start-file events the player sends in one session of this specification
RecMaxFiles == 3

\* the sessions of got-playlist events, as the wrapper has them once the
\* player has reported the playlist of its lines and before any start-file
RecSessions ==
    {[mgr |-> [data_playlist |-> s.player.playlist] @@
              [s.mgr EXCEPT !.last_playlist_entry_id = NoEntryId],
      plist |-> s.plist,
      player |-> s.player @@ [phase |-> "idle", started |-> 0,
                              reports |-> [n \in AwaitedNames |-> Null]],
      nvim |-> s.nvim @@ [indicator |-> Null, playing |-> Null, written |-> <<>>]] :
        s \in PlaylistSessions}

InitRec ==
    /\ InitProtocol
    /\ del_in = Null
    /\ del_sent = <<>>
    /\ \E s \in RecSessions :
           /\ mgr = s.mgr
           /\ plist = s.plist
           /\ player = s.player
           /\ nvim = s.nvim
    /\ tasks = <<>>
    /\ did = Nothing

\* the entry the player started is still an entry of its playlist
StartedIsEntry ==
    \E k \in 1..Len(player.playlist) :
        player.playlist[k].id = mgr.last_playlist_entry_id

\* the callbacks update hands to the editor
PlaylistCalls == {"_paste_playlist", "_new_playlist_buffer"}

NextRec ==
    \/ \E k \in 1..Len(player.playlist) :
           /\ player.started < RecMaxFiles
           /\ StartFile(player.playlist[k].id)
    \* the entry the player started turns out to stand for a playlist
    \/ \E k \in 1..Len(player.playlist),
          count \in 1..(RecMaxIds + 1 - player.next_id),
          titled \in BOOLEAN, current \in BOOLEAN :
           /\ player.phase = "starting"
           /\ player.playlist[k].id = mgr.last_playlist_entry_id
           /\ GotPlaylist(k, count, titled, current)
    \/ JumpPlaylistReported
    \/ StartedIsEntry /\ \E title \in LoadValues : FileLoaded(title, title)
    \/ RunPlaylistCall
    \/ /\ nvim.calls # <<>>
       /\ Head(nvim.calls).fn \notin PlaylistCalls
       /\ RunLoadCall

SpecRec == InitRec /\ [][NextRec]_vars

\* ==========================================================================
\* MpvManager.toggle_video: the old player is told to quit and a new one is
\* to be spawned on the same playlist
\* ==========================================================================
\* what the player answers for track-list: tracks without and with a video
\* track
TrackLists == {"audio", "audio,video"}

\* any(map(lambda x: x.get("type") == "video", track_list))
HasVideoTrack(track_list) == track_list = "audio,video"

\* MpvPlaylist.reorder_by_index
ReorderByIndex(pl, old_playlist) ==
    LET ids == [k \in 1..Len(old_playlist) |-> old_playlist[k].id]
        remapped == {k \in DOMAIN ids : ids[k] \in DOMAIN pl.playlist_id_remap}
        new_remap == [k \in remapped |-> pl.playlist_id_remap[ids[k]]]
        mapped == {new_remap[k] : k \in remapped}
        bound == {k \in DOMAIN ids : ids[k] \in DOMAIN pl.playlist_id_to_extmark_id}
        found == {Min({k \in remapped : new_remap[k] = i}) : i \in mapped}
        new_extmark_ids ==
            [k \in bound \cup found |->
                IF k \in found THEN new_remap[k]
                ELSE pl.playlist_id_to_extmark_id[ids[k]]]
    IN  [pl EXCEPT
            !.playlist_id_to_extra_data =
                IF pl.new_extra_data = NoExtraData THEN @ ELSE pl.new_extra_data,
            !.new_extra_data = NoExtraData,
            !.playlist_id_remap = new_remap,
            !.playlist_id_to_extmark_id = new_extmark_ids,
            !.updated_indices = <<>>]

\* the toggle_video coroutine t has got what it awaited at pc
ToggleResumes(t, pc) ==
    /\ LoopIdle
    /\ tasks[t].co = "toggle_video"
    /\ tasks[t].pc = pc
    /\ futures[tasks[t].future].state # "pending"

\* the await raised CancelledError: the coroutine ends there
ToggleCancelled(t) ==
    /\ tasks' = RemoveAt(tasks, t)
    /\ ProtocolIdle
    /\ did' = [Nothing EXCEPT !.raised = "CancelledError"]
    /\ UNCHANGED <<mgr, plist, player, nvim>>

\* toggle_video awaits the next property
ToggleAsks(t, n, arg) ==
    /\ WaitProperty(n, FALSE)
    /\ did' = [Nothing EXCEPT !.sent =
                  IF Closing THEN <<>> ELSE << <<"get_property", n>> >>]
    /\ tasks' = [tasks EXCEPT ![t] = Task("toggle_video", n, arg, Len(futures) + 1)]
    /\ UNCHANGED <<mgr, plist, player, nvim>>

\* track_list = await ...wait_property("track-list") has returned
ToggleGotTrackList(t) ==
    /\ ToggleResumes(t, "track-list")
    /\ IF futures[tasks[t].future].state = "cancelled" THEN ToggleCancelled(t)
       ELSE IF HasVideoTrack(futures[tasks[t].future].result)
       THEN /\ SendAll(<< <<"cycle", "video">> >>, FALSE)
            /\ tasks' = RemoveAt(tasks, t)
            /\ UNCHANGED <<mgr, plist, player, nvim>>
       ELSE ToggleAsks(t, "playlist-pos", Null)

\* current_position = await ...wait_property("playlist-pos") has returned
ToggleGotPosition(t) ==
    /\ ToggleResumes(t, "playlist-pos")
    /\ IF futures[tasks[t].future].state = "cancelled" THEN ToggleCancelled(t)
       ELSE ToggleAsks(t, "playback-time", futures[tasks[t].future].result)

\* current_time has returned: _transitioning_players = True, quit is sent,
\* the playlist is reordered and the coroutine waits for "close"
ToggleTearsDown(t) ==
    /\ ToggleResumes(t, "playback-time")
    /\ IF futures[tasks[t].future].state = "cancelled" THEN ToggleCancelled(t)
       ELSE /\ mgr' = [mgr EXCEPT !.transitioning = TRUE]
            /\ plist' = ReorderByIndex(plist, mgr.data_playlist)
            /\ wire' = IF Closing THEN wire
                       ELSE Append(wire, [rid |-> DefaultRequestId, tag |-> FALSE])
            /\ futures' = Append(futures, Pending)
            /\ waiting_events' =
                   [waiting_events EXCEPT !["close"] = Append(@, Len(futures) + 1)]
            /\ out' = Quiet
            /\ did' = [Nothing EXCEPT !.sent =
                          IF Closing THEN <<>> ELSE << <<"quit">> >>]
            /\ tasks' = [tasks EXCEPT ![t] =
                             Task("toggle_video", "close", tasks[t].arg, Len(futures) + 1)]
            /\ UNCHANGED <<transport, data, properties, reverse_properties,
                           last_property, waiting_properties, ignore_errors,
                           playlist_request>>
            /\ UNCHANGED delVars
            /\ UNCHANGED <<player, nvim>>

\* await ...next_event("close") is over: on a result the empty line is drawn
\* and spawn clears the event and waits for create_mpv
ToggleAfterClose(t) ==
    /\ ToggleResumes(t, "close")
    /\ IF futures[tasks[t].future].state = "cancelled" THEN ToggleCancelled(t)
       ELSE /\ nvim' = [nvim EXCEPT !.calls = Append(@, [fn |-> "_draw_update"])]
            /\ mgr' = [mgr EXCEPT !.spawning = TRUE]
            /\ tasks' = [tasks EXCEPT ![t] =
                             Task("toggle_video", "spawn", tasks[t].arg, 0)]
            /\ ProtocolIdle
            /\ did' = Nothing
            /\ UNCHANGED <<plist, player>>

\* the player answers a get_property of toggle_video
RelaunchAnswers(i) ==
    /\ wire[i].rid \in DOMAIN waiting_properties
    /\ \E d \in IF waiting_properties[wire[i].rid].name = "track-list"
                THEN TrackLists ELSE Values :
           MgrAnswers(i, d)

\* the player drops an entry of its playlist after a playlist-remove
RelaunchEntryRemoved(k) ==
    /\ mgr.mpv
    /\ transport = "open"
    /\ ~mgr.transitioning
    /\ JumpEntryRemoved(k)

NextRelaunch ==
    \/ SpawnStarts
    \/ SpawnSucceeds
    \/ PlaylistReported
    \/ \E k \in 1..Len(player.playlist) : RelaunchEntryRemoved(k)
    \/ MgrToggleVideo
    \/ \E i \in 1..Len(wire) : RelaunchAnswers(i)
    \/ \E t \in 1..Len(tasks) : ToggleGotTrackList(t)
    \/ \E t \in 1..Len(tasks) : ToggleGotPosition(t)
    \/ \E t \in 1..Len(tasks) : ToggleTearsDown(t)
    \/ \E t \in 1..Len(tasks) : ToggleAfterClose(t)
    \/ MgrConnectionLost
    \/ RunHeldClose
    \/ RemoveMpvInstance

SpecRelaunch == InitManager /\ [][NextRelaunch]_vars

\* the loop runs what is ready and the player answers and closes
SpecRelaunchFair == SpecRelaunch /\ WF_vars(NextRelaunch)

\* ==========================================================================
\* toggle_video up to its teardown on a session with a history of got-playlist
\* events and removed entries
\* ==========================================================================
\* ids the player hands out in one session of this specification
RoMaxIds == 3

\* the sessions of got-playlist events, spawned and with the playlist of
\* their lines reported
ReorderSessions ==
    {[mgr |-> [data_playlist |-> s.player.playlist, started |-> TRUE, calls |-> 0]
              @@ s.mgr,
      plist |-> s.plist,
      player |-> s.player @@ [phase |-> "running"],
      nvim |-> s.nvim] :
        s \in PlaylistSessions}

InitReorder ==
    /\ InitProtocol
    /\ del_in = Null
    /\ del_sent = <<>>
    /\ \E s \in ReorderSessions :
           /\ mgr = s.mgr
           /\ plist = s.plist
           /\ player = s.player
           /\ nvim = s.nvim
    /\ tasks = <<>>
    /\ did = Nothing

NextReorder ==
    \/ \E k \in 1..Len(player.playlist),
          count \in 1..(RoMaxIds + 1 - player.next_id),
          titled \in BOOLEAN, current \in BOOLEAN :
           /\ ~mgr.transitioning
           /\ GotPlaylist(k, count, titled, current)
    \/ RunPlaylistCall
    \/ JumpPlaylistReported
    \/ \E k \in 1..Len(player.playlist) : RelaunchEntryRemoved(k)
    \* one toggle_video per session
    \/ mgr.calls = 0 /\ MgrToggleVideo
    \/ \E i \in 1..Len(wire) : RelaunchAnswers(i)
    \/ \E t \in 1..Len(tasks) : ToggleGotTrackList(t)
    \/ \E t \in 1..Len(tasks) : ToggleGotPosition(t)
    \/ \E t \in 1..Len(tasks) : ToggleTearsDown(t)

SpecReorder == InitReorder /\ [][NextReorder]_vars

\* ==========================================================================
\* Redirects: end-file events with reason redirect and the playlist replies
\* they ask for. mgr.playlist_new is the _playlist_new of the session's
\* protocol; player.current is the entry the player is on, player.next_id the
\* id it gives the next entry it inserts, player.asked the redirect each
\* playlist request was written for; did.new is the "new" member of the
\* got-playlist the last step dispatched.
\* ==========================================================================
\* ids drawn from the counter, commands awaiting a reply, entries a redirect inserts
RdMaxIds == 3
RdMaxWire == 3
RdMaxCount == 2

\* { i: json_data.get(i) for i in ["playlist_entry_id", "playlist_insert_id",
\*   "playlist_insert_num_entries"] }
PlaylistNew(json_data) ==
    [playlist_entry_id |-> json_data.playlist_entry_id,
     playlist_insert_id |-> json_data.playlist_insert_id,
     playlist_insert_num_entries |-> json_data.playlist_insert_num_entries]

\* the end-file the player writes when its current entry turns out to be a
\* playlist of n entries
RedirectEvent(n) ==
    [event |-> "end-file", reason |-> "redirect",
     playlist_entry_id |-> player.current,
     playlist_insert_id |-> player.next_id,
     playlist_insert_num_entries |-> n]

\* data_received of that event: _try_playlist
RedirectReceived(n) ==
    /\ EndFileRedirect
    /\ mgr' = [mgr EXCEPT !.playlist_new = PlaylistNew(RedirectEvent(n))]
    /\ player' = [current |-> player.next_id,
                  next_id |-> player.next_id + n,
                  asked |-> With(player.asked, last_property,
                                 PlaylistNew(RedirectEvent(n)))]
    /\ did' = [new |-> Null]
    /\ UNCHANGED <<plist, nvim, tasks>>

\* data_received of a reply: the got-playlist branch hands _playlist_new to the
\* handlers and resets it
RedirectReply(i, err, d) ==
    /\ Reply(i, err, d)
    /\ IF ReplyBranch(wire[i].rid, err) = "playlist"
       THEN /\ did' = [new |-> mgr.playlist_new]
            /\ mgr' = [mgr EXCEPT !.playlist_new = Null]
       ELSE /\ did' = [new |-> Null]
            /\ UNCHANGED mgr
    /\ UNCHANGED <<player, plist, nvim, tasks>>

InitRedirect ==
    /\ InitProtocol
    /\ del_in = Null
    /\ del_sent = <<>>
    /\ mgr = [playlist_new |-> Null]
    /\ plist = Null
    /\ player = [current |-> 1, next_id |-> 2, asked |-> <<>>]
    /\ nvim = Null
    /\ tasks = <<>>
    /\ did = [new |-> Null]

RedirectBounds == Within(RdMaxIds, RdMaxWire, 0)

RedirectIdle == did' = [new |-> Null] /\ UNCHANGED <<mgr, player, plist, nvim, tasks>>

NextRedirect ==
    \/ \E n \in 1..RdMaxCount : RedirectReceived(n) /\ RedirectBounds'
    \/ \E i \in 1..Len(wire), d \in Values \cup {Null} : RedirectReply(i, FALSE, d)
    \/ \E i \in 1..Len(wire) : RedirectReply(i, TRUE, Null)
    \/ \E n \in Names : ObserveProperty(n, FALSE) /\ RedirectBounds' /\ RedirectIdle
    \/ \E n \in Names : GetProperty(n, FALSE) /\ RedirectBounds' /\ RedirectIdle

SpecRedirect == InitRedirect /\ [][NextRedirect]_vars

\* ==========================================================================
\* Chunks: the bytes the player writes and the pieces of them the transport
\* hands to data_received. player.written is the events of the messages the
\* player wrote, in order, player.pending the bytes not handed over yet;
\* did.handled is the events data_received gave to _try_handle_event so far.
\* ==========================================================================
\* messages the player writes
ChMaxMessages == 2

\* the events the messages carry
ChunkEvents == {"start-file", "file-loaded"}
Newline == "\n"
Whitespace == {" ", Newline}

\* the bytes of {"event": e}: the opening brace, the members, the closing brace
MessageText(e) == <<"{", e, "}">>

RECURSIVE StreamOf(_)
\* every message is followed by a newline
StreamOf(events) ==
    IF events = <<>> THEN <<>>
    ELSE MessageText(Head(events)) \o <<Newline>> \o StreamOf(Tail(events))

RECURSIVE Split(_, _)
\* bytes.split(sep): the pieces between the separators, empty ones included
Split(s, sep) ==
    IF \A i \in 1..Len(s) : s[i] # sep THEN <<s>>
    ELSE LET i == CHOOSE k \in 1..Len(s) :
                      s[k] = sep /\ \A j \in 1..(k - 1) : s[j] # sep
         IN  <<SubSeq(s, 1, i - 1)>> \o Split(SubSeq(s, i + 1, Len(s)), sep)

RECURSIVE RStrip(_)
\* bytes.rstrip()
RStrip(s) ==
    IF s # <<>> /\ s[Len(s)] \in Whitespace THEN RStrip(SubSeq(s, 1, Len(s) - 1))
    ELSE s

\* json.loads accepts the piece: it is one whole object
WellFormed(s) ==
    /\ Len(s) = 3
    /\ s[1] = "{"
    /\ s[2] \in ChunkEvents
    /\ s[3] = "}"

\* json.loads(datum).get("event")
JsonLoads(s) == s[2]

RECURSIVE HandleData(_)
\* the loop of data_received over the pieces of one chunk: the events it
\* dispatches, and JSONDecodeError at the first piece json.loads rejects
HandleData(pieces) ==
    IF pieces = <<>> THEN [events |-> <<>>, raised |-> Null]
    ELSE IF RStrip(Head(pieces)) = <<>> THEN HandleData(Tail(pieces))
    ELSE IF ~WellFormed(RStrip(Head(pieces)))
         THEN [events |-> <<>>, raised |-> "JSONDecodeError"]
    ELSE LET rest == HandleData(Tail(pieces))
         IN  [events |-> <<JsonLoads(RStrip(Head(pieces)))>> \o rest.events,
              raised |-> rest.raised]

\* the transport hands the next n bytes to data_received. No coroutine waits
\* for an event here, so the dispatches fulfil no future. An exception that
\* leaves data_received is either logged by the loop or fatal to the transport.
DataReceived(n) ==
    /\ transport = "open"
    /\ n \in 1..Len(player.pending)
    /\ LET r == HandleData(Split(SubSeq(player.pending, 1, n), Newline))
       IN  /\ out' = [Quiet EXCEPT !.events = r.events, !.raised = r.raised]
           /\ did' = [handled |-> did.handled \o r.events]
           /\ transport' \in IF r.raised = Null THEN {"open"} ELSE {"open", "closed"}
    /\ player' = [player EXCEPT !.pending = SubSeq(@, n + 1, Len(@))]
    /\ UNCHANGED <<data, properties, reverse_properties, last_property,
                   waiting_properties, ignore_errors, waiting_events,
                   playlist_request, futures, wire>>
    /\ UNCHANGED <<delVars, mgr, plist, nvim, tasks>>

InitChunks ==
    /\ InitProtocol
    /\ del_in = Null
    /\ del_sent = <<>>
    /\ mgr = Null
    /\ plist = Null
    /\ \E k \in 1..ChMaxMessages : \E events \in [1..k -> ChunkEvents] :
           player = [written |-> events, pending |-> StreamOf(events)]
    /\ nvim = Null
    /\ tasks = <<>>
    /\ did = [handled |-> <<>>]

NextChunks == \E n \in 1..Len(player.pending) : DataReceived(n)

SpecChunks == InitChunks /\ [][NextChunks]_vars

\* ==========================================================================
\* Claims about requests, observers and the cache (checked under Spec)
\* ==========================================================================
ReplyData == Values \cup {Null}

\* the request ids of the outstanding wait_property calls
GetIds == {r \in DOMAIN waiting_properties : waiting_properties[r].type = GET}

\* C1: whatever wait_property requests are outstanding and in whatever order
\* their replies arrive, a success reply completes the future recorded under
\* its request_id with the reply's data, removes that one entry, and leaves
\* every other future and every other pending request as it was.
C1_ReplyRoutesToItsFuture ==
    [][\A i \in 1..Len(wire), d \in ReplyData :
        (Reply(i, FALSE, d) /\ wire[i].rid \in GetIds) =>
            LET r == wire[i].rid
                f == waiting_properties[r].future
            IN  /\ futures'[f] = Done(d)
                /\ \A g \in DOMAIN futures \ {f} : futures'[g] = futures[g]
                /\ DOMAIN waiting_properties' = DOMAIN waiting_properties \ {r}
                /\ \A q \in DOMAIN waiting_properties \ {r} :
                       waiting_properties'[q] = waiting_properties[q]]_vars

\* two requests were outstanding together and the later one was answered first
C1_Witness ==
    /\ Len(futures) = 2
    /\ futures[1] = Pending
    /\ futures[2] = Done("a")
    /\ \E r \in GetIds : waiting_properties[r].future = 1

\* C4: set_property(name, value, update=True) leaves the cache alone when it is
\* sent; the success reply that carries the set's request_id writes `value` to
\* data[name]; and the cache changes in no step but a success reply or a
\* property-change, so between the send and the reply the set changes nothing.
C4_SetWritesCacheOnlyOnAck ==
    [][/\ \A n \in Names, v \in Values :
              SetProperty(n, v, TRUE, FALSE) => data' = data
       /\ \A i \in 1..Len(wire), d \in ReplyData :
              (Reply(i, FALSE, d) /\ wire[i].rid \in SetIds) =>
                  data' = [data EXCEPT ![waiting_properties[wire[i].rid].name] =
                                           waiting_properties[wire[i].rid].future]
       /\ data' # data =>
              \/ \E i \in 1..Len(wire), d \in ReplyData : Reply(i, FALSE, d)
              \/ \E id \in FirstId..last_property, d \in Values :
                     PropertyChange(id, d)]_vars

\* a set of pause was acknowledged and the cache holds its value, which nothing
\* else could have written (pause has no observer id, no wait_property was
\* called); a set of duration is still unanswered and has not reached the cache
C4_Witness ==
    /\ data["pause"] = "a"
    /\ data["duration"] = Null
    /\ "pause" \notin DOMAIN properties
    /\ futures = <<>>
    /\ \E r \in SetIds : /\ waiting_properties[r].name = "duration"
                         /\ \E i \in 1..Len(wire) : wire[i].rid = r

\* C5: the observer id of a property name is the one assigned at its first use:
\* no call changes the id of a name that has one, no id is bound to a second
\* name, _property_id keeps returning the recorded id, and the two maps stay
\* each other's inverse.
C5_ObserverIdsStable ==
    [][/\ \A n \in DOMAIN properties :
              /\ n \in DOMAIN properties'
              /\ properties'[n] = properties[n]
              /\ PropertyId(n)' = properties[n]
       /\ \A id \in DOMAIN reverse_properties :
              /\ id \in DOMAIN reverse_properties'
              /\ reverse_properties'[id] = reverse_properties[id]
       /\ \A n, m \in DOMAIN properties' :
              properties'[n] = properties'[m] => n = m
       /\ \A n \in DOMAIN properties' :
              /\ properties'[n] \in DOMAIN reverse_properties'
              /\ reverse_properties'[properties'[n]] = n
       /\ DOMAIN reverse_properties' = {properties'[n] : n \in DOMAIN properties'}]_vars

\* both names have an id, ids were drawn in between, and a get of an observed
\* name is on the wire under the id of its first use
C5_Witness ==
    /\ DOMAIN properties = Names
    /\ properties["pause"] = FirstId
    /\ properties["duration"] = FirstId + 1
    /\ \E i \in 1..Len(wire) : wire[i].rid = FirstId

\* the property name an observer id is bound to, if any
BoundNames(id) == {n \in DOMAIN properties : properties[n] = id}

\* C6: a property-change with observer id X and non-null data sets the cache
\* entry of the name bound to X and no other; when X is bound to no name the
\* cache does not change.
C6_PropertyChangeUpdatesOnlyItsName ==
    [][\A id \in FirstId..last_property, d \in Values :
        PropertyChange(id, d) =>
            \A n \in Names :
                data'[n] = IF n \in BoundNames(id) THEN d ELSE data[n]]_vars

\* both names are observed, the last message was a property-change, pause holds
\* the pushed value and duration is as it was
C6_Witness ==
    /\ DOMAIN properties = Names
    /\ out.events = <<"property-change">>
    /\ data[reverse_properties[FirstId]] = "a"
    /\ data[reverse_properties[FirstId + 1]] = Null


\* ==========================================================================
\* Claims about error replies (checked under SpecErrors)
\* ==========================================================================

\* C8: an error reply to a command that was sent with the ignore-error tag is
\* silently discarded: no event is dispatched, so no error is shown, and the
\* cache is unchanged.
C8_TaggedErrorDiscarded ==
    [][\A i \in 1..Len(wire) :
        (Reply(i, TRUE, Null) /\ wire[i].tag) =>
            /\ out'.events = <<>>
            /\ data' = data]_vars

\* C9: an error reply whose request_id is not in the ignore list dispatches one
\* error event, which carries the property name exactly when the request_id is
\* the observer id of a name; the transport stays open, the handler raises
\* nothing, so later messages are processed, and the cache is not written.
C9_UntaggedErrorSurfaced ==
    [][\A i \in 1..Len(wire) :
        (Reply(i, TRUE, Null) /\ wire[i].rid \notin Range(ignore_errors)) =>
            /\ out'.events = <<"error">>
            /\ \A n \in Names : out'.pname = n <=> n \in BoundNames(wire[i].rid)
            /\ BoundNames(wire[i].rid) = {} => out'.pname = Null
            /\ out'.raised = Null
            /\ transport' = "open"
            /\ wire' = RemoveAt(wire, i)
            /\ data' = data]_vars

\* an error for the observer id of pause was shown with the name, the cache
\* holds what an earlier reply wrote, and another command is still to be answered
C9_Witness ==
    /\ out.events = <<"error">>
    /\ out.pname = "pause"
    /\ data["pause"] = "a"
    /\ transport = "open"
    /\ wire # <<>>

\* ==========================================================================
\* Claims about transport closure and event waiters (checked under SpecClose)
\* ==========================================================================
EventFutures == UNION {Range(waiting_events[e]) : e \in WaitNames}

\* C2: when the transport closes, the future of every outstanding awaited
\* request is cancelled, also when set-with-acknowledgement entries are
\* outstanding next to it.
C2_ClosureCancelsEveryRequest ==
    [][ConnectionLost =>
        \A r \in GetIds : futures'[waiting_properties[r].future].state = "cancelled"]_vars

\* C3: at every closure connection_lost cancels every outstanding request and
\* event waiter, dispatches the close event to the close handlers, and raises
\* nothing.
C3_ClosureCancelsThenDispatchesClose ==
    [][ConnectionLost =>
        /\ \A r \in GetIds : futures'[waiting_properties[r].future].state # "pending"
        /\ \A f \in EventFutures : futures'[f].state # "pending"
        /\ out'.events = <<"close">>
        /\ out'.raised = Null]_vars

\* C7: an occurrence of an event fulfils every waiter registered for its name,
\* in registration order, and empties the list; a fulfilled waiter is never
\* touched again and a cancelled waiter is never fulfilled.
C7_WaitersFulfilledOnceInOrder ==
    [][/\ \A e \in WaitNames :
              (out'.events = <<e>> /\ (PlayerEvent(e) \/ ConnectionLost)) =>
                  /\ out'.fulfilled = waiting_events[e]
                  /\ \A f \in Range(waiting_events[e]) : futures'[f] = Done(True)
                  /\ waiting_events'[e] = <<>>
       /\ \A f \in DOMAIN futures :
              futures[f].state # "pending" => futures'[f] = futures[f]]_vars

\* ==========================================================================
\* Claims about forward_deletions (checked under SpecDeletions)
\* ==========================================================================

\* C10: forward_deletions sends its playlist-remove commands in strictly
\* descending order of live playlist index, so each index at most once.
C10_RemovalsStrictlyDescending ==
    \A k \in 1..(Len(del_sent) - 1) : del_sent[k] > del_sent[k + 1]

\* the handles of the entries at live indices 4, 1 and 7 were removed and the
\* removals went out as 7, 4, 1
C10_Witness ==
    /\ del_sent = <<7, 4, 1>>
    /\ del_in.playlist = [k \in 1..8 |-> k]
    /\ del_in.removed_items = {del_in.playlist_id_to_extmark_id[i] : i \in {5, 2, 8}}

\* the player ids bound to a removed handle
BoundToRemoved(s) ==
    {i \in DOMAIN s.playlist_id_to_extmark_id :
        s.playlist_id_to_extmark_id[i] \in s.removed_items}

\* the playlist_id_remap keys that descend from a player id bound to a
\* removed handle
DescendFromRemoved(s) ==
    {j \in DOMAIN s.playlist_id_remap : s.playlist_id_remap[j] \in BoundToRemoved(s)}

C12_StayAccumulatesRemap ==
    mgr.update_action = "stay" =>
        \A i \in DOMAIN player.origin :
            /\ i \in DOMAIN plist.playlist_id_remap
            /\ plist.playlist_id_remap[i] = player.origin[i]

\* C13: when the id-to-handle map holds more than one item and the configured
\* action is paste_one or new_one, a got-playlist event is handled as Stay
\* handles it: playlist_id_remap becomes what Stay records, nothing is handed
\* to the editor (no paste, no new display surface), display stays as it was
\* and the id-to-handle map and the item data are unchanged.
C13_SingleItemActionsStay ==
    [][\A k \in 1..Len(player.playlist), count \in 1..PlMaxIds,
          titled \in BOOLEAN, current \in BOOLEAN :
        (/\ GotPlaylist(k, count, titled, current)
         /\ Cardinality(DOMAIN plist.playlist_id_to_extmark_id) > 1
         /\ mgr.update_action \in {"paste_one", "new_one"}) =>
            /\ plist'.playlist_id_remap =
                   StayRecords(plist.playlist_id_remap,
                               GotPlaylistData(k, count, titled, current))
            /\ nvim' = nvim
            /\ mgr' = mgr
            /\ plist'.playlist_id_to_extmark_id = plist.playlist_id_to_extmark_id
            /\ plist'.playlist_id_to_extra_data = plist.playlist_id_to_extra_data]_vars

\* a session opened on two lines under new_one has recorded the three entries
\* of a redirect of its first item as descendants of player id 1, has asked
\* the editor for nothing and still binds ids 1 and 2 to their handles
C13_Witness ==
    /\ mgr.update_action = "new_one"
    /\ plist.playlist_id_remap = [i \in 3..5 |-> 1]
    /\ DOMAIN plist.playlist_id_to_extmark_id = {1, 2}
    /\ nvim.calls = <<>>
    /\ nvim.surfaces = <<>>
    /\ nvim.pasted = <<>>

\* C14: under new_one on a session opened with one item, the got-playlist
\* event that inserts k entries hands one _new_playlist_buffer callback to the
\* editor, and once the editor has run it exactly one new display surface was
\* requested, seeded with k lines, and the keys of playlist_id_to_extmark_id
\* and of playlist_id_to_extra_data are exactly the k inserted ids.
C14_ReplaceRebuildsMapping ==
    (/\ mgr.update_action = "new_one"
     /\ player.next_id - Cardinality(DOMAIN player.origin) = 2
     /\ DOMAIN player.origin # {}
     /\ \A i \in DOMAIN player.origin : player.origin[i] = 1) =>
        IF nvim.calls # <<>>
        THEN /\ Len(nvim.calls) = 1
             /\ nvim.calls[1].fn = "_new_playlist_buffer"
             /\ nvim.surfaces = <<>>
        ELSE /\ Len(nvim.surfaces) = 1
             /\ Len(nvim.surfaces[1]) = Cardinality(DOMAIN player.origin)
             /\ DOMAIN plist.playlist_id_to_extmark_id = DOMAIN player.origin
             /\ DOMAIN plist.playlist_id_to_extra_data = DOMAIN player.origin

\* ==========================================================================
\* Claims about start-file and file-loaded (checked under SpecLoad)
\* ==========================================================================
\* the callbacks in the editor's queue that rewrite a line
WriteCalls(calls) ==
    SelectSeq(calls, LAMBDA c : c.fn = "write_line_of_playlist_item")

C16_UnknownLoadReported ==
    [][\A title \in LoadValues, filename \in LoadValues :
        (/\ FileLoaded(title, filename)
         /\ mgr.last_playlist_entry_id \notin DOMAIN plist.playlist_id_to_extmark_id
         /\ mgr.last_playlist_entry_id \notin DOMAIN plist.playlist_id_remap) =>
            /\ did'.raised = Null
            /\ out'.raised = Null
            /\ Len(did'.shown) = 1
            /\ mgr'.no_draw = FALSE
            /\ tasks' = tasks
            /\ nvim' = nvim]_vars

\* the entry with id 4, which the session never bound, was loaded: one error
\* was shown and display is enabled again
C16_Witness ==
    /\ mgr.last_playlist_entry_id = 4
    /\ player.phase = "loaded"
    /\ did.shown = <<"Playlist transition failed!">>
    /\ did.raised = Null
    /\ mgr.no_draw = FALSE

\* ==========================================================================
\* Claims about the manager's command surface (checked under SpecManager)
\* ==========================================================================
\* the step is a call of one of send_command, set_property, wait_property,
\* send_keypress (not q), toggle_pause, toggle_video
SurfaceCall ==
    \/ MgrSendCommand
    \/ \E n \in Names, v \in Values, update \in BOOLEAN : MgrSetProperty(n, v, update)
    \/ \E n \in Names : MgrWaitProperty(n)
    \/ \E count \in 1..MgrMaxCount : MgrSendKeypress(count)
    \/ MgrTogglePause
    \/ MgrToggleVideo

\* the step runs the body of set_current_by_playlist_extmark, at once or after
\* the wait for the spawn
SetCurrentRuns ==
    \/ ~mgr.spawning /\ \E extmark_id \in MgrHandles : MgrSetCurrent(extmark_id)
    \/ RunHeld /\ tasks[Min(Woken)].co = "set_current"

\* C17: set_current_by_playlist_extmark on a session whose live playlist has
\* fewer than two items shows one error, writes no command to the transport
\* (so no playlist-play-index) and raises nothing.
C17_SmallPlaylistRefused ==
    [][(SetCurrentRuns /\ Len(mgr.data_playlist) < 2) =>
          /\ Len(did'.shown) = 1
          /\ did'.sent = <<>>
          /\ wire' = wire
          /\ did'.raised = Null
          /\ out'.raised = Null]_vars

\* the player has reported a playlist of one entry, and a set-current was refused
C17_Witness ==
    /\ mgr.mpv
    /\ transport = "open"
    /\ Len(mgr.data_playlist) = 1
    /\ did.shown = <<SmallPlaylist>>

\* C18: send_command, set_property, wait_property, send_keypress (not q),
\* toggle_pause and toggle_video, called while manager.mpv is None, each show
\* one error, write nothing to a transport, raise nothing and leave no
\* coroutine suspended.
C18_NoPlayerFailsSoft ==
    [][(SurfaceCall /\ ~mgr.mpv) =>
          /\ Len(did'.shown) = 1
          /\ did'.sent = <<>>
          /\ wire' = wire
          /\ did'.raised = Null
          /\ out'.raised = Null
          /\ tasks' = tasks]_vars

\* the spawn has failed and both calls made since were answered "not ready"
C18_Witness ==
    /\ ~mgr.mpv
    /\ mgr.started
    /\ ~mgr.spawning
    /\ mgr.calls = MgrMaxCalls
    /\ did.shown = <<NotReady>>

\* the transport has been lost, close has run and the plugin has removed the
\* session
Closed == transport = "closed" /\ ~mgr.registered

\* C19: once the session is Closed, every call of the command surface shows the
\* error "not ready", writes nothing to a transport and leaves no coroutine
\* suspended.
C19_ClosedRejectsCommands ==
    [][(SurfaceCall /\ Closed) =>
          /\ did'.shown = <<NotReady>>
          /\ wire' = wire
          /\ tasks' = tasks]_vars

\* C20: a forward-deletions or a set-current issued while the spawn is under
\* way shows an error in that very step and leaves no coroutine behind that
\* waits for the spawn to finish.
C20_SpawningCommandsDropped ==
    [][(/\ mgr.spawning
        /\ \/ \E extmark_id \in MgrHandles : MgrSetCurrent(extmark_id)
           \/ \E removed \in SUBSET MgrHandles : MgrForwardDeletions(removed)) =>
          /\ Len(did'.shown) = 1
          /\ tasks' = tasks
          /\ wire' = wire]_vars

\* the coroutines that wait for _not_spawning_player
Held == {t \in 1..Len(tasks) : tasks[t].pc = "held"}

\* C23: a spawn that fails at startup shows one error and raises nothing,
\* leaves manager.mpv None and sets the not-spawning event, so that every
\* coroutine waiting for the spawn can go on; and the session, once its spawn
\* has failed, never gets a player.
C23_FailedSpawnReportedOnce ==
    [][/\ SpawnFails =>
              /\ Len(did'.shown) = 1
              /\ did'.raised = Null
              /\ ~mgr'.mpv
              /\ ~mgr'.spawning
              /\ Woken' = Held
       /\ (mgr.started /\ ~mgr.spawning /\ ~mgr.mpv) => ~mgr'.mpv]_vars

\* the spawn has failed, and a forward-deletions that waited for it went on
\* and was answered
C23_Witness ==
    /\ mgr.started
    /\ ~mgr.spawning
    /\ ~mgr.mpv
    /\ did.shown = <<ForwardIsClosed>>

\* one get_property per observed property, in the order of _properties, each
\* under the property's observer id
FetchCommands ==
    LET ids == Ascending({properties[n] : n \in DOMAIN properties})
    IN  [i \in 1..Len(ids) |-> [rid |-> ids[i], tag |-> TRUE]]

\* C24: on a connected session send_keypress writes the keypress command
\* `count` times, and when it goes on after its delay it writes, after them,
\* exactly one ignore-tagged get_property for every observed property, under
\* that property's observer id, and nothing else.
C24_KeypressThenFetch ==
    [][/\ \A count \in 1..MgrMaxCount :
              (MgrSendKeypress(count) /\ mgr.mpv /\ transport = "open") =>
                  /\ did'.sent = [i \in 1..count |-> <<"keypress">>]
                  /\ wire' = wire \o [i \in 1..count |->
                                         [rid |-> DefaultRequestId, tag |-> FALSE]]
                  /\ tasks' = Append(tasks, Task("send_keypress", "sleeping", count, 0))
       /\ \A t \in 1..Len(tasks) :
              (KeypressFetches(t) /\ transport = "open") =>
                  /\ wire' = wire \o FetchCommands
                  /\ Len(FetchCommands) = Cardinality(DOMAIN properties)
                  /\ \A n \in DOMAIN properties :
                         Cardinality({i \in 1..Len(FetchCommands) :
                                         FetchCommands[i].rid = properties[n]}) = 1
                  /\ ignore_errors' = ignore_errors \o
                         [i \in 1..Len(FetchCommands) |-> FetchCommands[i].rid]
                  /\ tasks' = RemoveAt(tasks, t)]_vars

\* a send_keypress of two keys has completed on a connected session: the
\* three observed properties were fetched
C24_Witness ==
    /\ mgr.mpv
    /\ transport = "open"
    /\ tasks = <<>>
    /\ Len(did.sent) = Len(ObservedAlways)
    /\ \A i \in 1..Len(did.sent) : did.sent[i] = <<"get_property">>
    /\ Len(wire) >= MgrMaxCount + Len(ObservedAlways)
    /\ SubSeq(wire, Len(wire) - Len(ObservedAlways) + 1, Len(wire)) = FetchCommands

\* ==========================================================================
\* More claims about error replies (checked under SpecErrors)
\* ==========================================================================
\* C26: an error reply, ignore-tagged or not, whose request_id is the id of an
\* entry of _waiting_properties removes that entry, and the future of a
\* wait_property waiting under that id is no longer pending afterwards.
C26_ErrorReplyEndsRequest ==
    [][\A i \in 1..Len(wire) :
        (Reply(i, TRUE, Null) /\ wire[i].rid \in DOMAIN waiting_properties) =>
            /\ wire[i].rid \notin DOMAIN waiting_properties'
            /\ waiting_properties[wire[i].rid].type = GET =>
                   futures'[waiting_properties[wire[i].rid].future].state # "pending"]_vars

\* ==========================================================================
\* More claims about start-file and file-loaded (checked under SpecLoad)
\* ==========================================================================
\* C27: start-file(new_id) only records new_id: it hands no callback to the
\* editor, and the player's display is moved only after a file-loaded has
\* followed the start-file.
C27_StartFileOnlyCaches ==
    [][/\ \A k \in 1..Len(player.playlist) :
              StartFile(player.playlist[k].id) =>
                  /\ mgr'.last_playlist_entry_id = player.playlist[k].id
                  /\ nvim'.calls = nvim.calls
       /\ nvim'.indicator # nvim.indicator => player.phase = "loaded"]_vars

\* ==========================================================================
\* More claims about got-playlist events (checked under SpecPlaylist)
\* ==========================================================================
\* the update action is a paste and is not turned into Stay
Pastes ==
    /\ mgr.update_action \in {"paste", "paste_one"}
    /\ ~DoStay(mgr.update_action, plist.playlist_id_to_extmark_id)

\* C30: under Paste, a got-playlist event whose delta inserts k entries hands
\* the k entries, in the order of the snapshot, to _paste_playlist; and
\* _paste_playlist overwrites the display at the handle of the originating
\* entry with k lines, one per entry in that order, and binds each of the k
\* inserted ids to the handle the editor returned for its line.
C30_PasteWritesAndBinds ==
    [][/\ \A k \in 1..Len(player.playlist), count \in 1..PlMaxIds,
             titled \in BOOLEAN, current \in BOOLEAN :
              (GotPlaylist(k, count, titled, current) /\ Pastes) =>
                  /\ Len(nvim'.calls) = Len(nvim.calls) + 1
                  /\ LET call == nvim'.calls[Len(nvim'.calls)]
                     IN  /\ call.fn = "_paste_playlist"
                         /\ call.playlist_id = player.playlist[k].id
                         /\ call.new_playlist =
                                SubSeq(player'.playlist, k, k + count - 1)
       /\ (/\ RunPlaylistCall
           /\ Head(nvim.calls).fn = "_paste_playlist") =>
              LET call == Head(nvim.calls)
                  k == Len(call.new_playlist)
              IN  /\ Len(nvim'.pasted) = Len(nvim.pasted) + 1
                  /\ LET paste == nvim'.pasted[Len(nvim'.pasted)]
                     IN  /\ paste.at = Get(plist.playlist_id_to_extmark_id, call.playlist_id)
                         /\ Len(paste.lines) = k
                         /\ \A j \in 1..k :
                                paste.lines[j][Len(paste.lines[j])] =
                                    call.new_playlist[j].filename
                  /\ \A j \in 1..k :
                         /\ call.new_playlist[j].id \in
                                DOMAIN plist'.playlist_id_to_extmark_id
                         /\ plist'.playlist_id_to_extmark_id[call.new_playlist[j].id] =
                                nvim.next_handle + j - 1]_vars

\* ==========================================================================
\* Claims about jumping to a handle (checked under SpecJump)
\* ==========================================================================
\* the player ids bound to a handle
BoundTo(handle) ==
    {i \in DOMAIN plist.playlist_id_to_extmark_id :
        plist.playlist_id_to_extmark_id[i] = handle}

\* the entries a redirect of entry id inserted, by the player's own account
InsertedFor(id) == {i \in DOMAIN player.origin : player.origin[i] = id}

\* the entry a jump to the handle is to play: the entry bound to the handle, or
\* the first entry inserted in its place
JumpTarget(handle) ==
    LET id == CHOOSE i \in BoundTo(handle) : TRUE
    IN  IF InsertedFor(id) # {} THEN Min(InsertedFor(id)) ELSE id

\* the positions, counted from 0, of an id in the playlist last reported
LiveIndices(id) ==
    {k - 1 : k \in {x \in 1..Len(mgr.data_playlist) : mgr.data_playlist[x].id = id}}

\* C29: with a live playlist of two entries or more, set_current_by_playlist_extmark
\* writes one playlist-play-index with the live index of the entry bound to the
\* handle or, when a redirect expanded that entry, of the first entry the
\* redirect inserted; and when no live entry matches (or no entry is bound to
\* the handle) it shows one error and writes nothing.
C29_JumpsToBoundOrFirstInserted ==
    [][\A handle \in JumpHandles :
        (JumpSetCurrent(handle) /\ Len(mgr.data_playlist) >= 2) =>
            /\ Cardinality(BoundTo(handle)) <= 1
            /\ IF BoundTo(handle) # {} /\ LiveIndices(JumpTarget(handle)) # {}
               THEN /\ Len(did'.sent) = 1
                    /\ did'.sent[1][1] = "playlist-play-index"
                    /\ LiveIndices(JumpTarget(handle)) = {did'.sent[1][2]}
                    /\ Len(wire') = Len(wire) + 1
                    /\ did'.shown = <<>>
               ELSE /\ did'.sent = <<>>
                    /\ wire' = wire
                    /\ Len(did'.shown) = 1
            /\ did'.raised = Null]_vars

\* a session opened on two lines that stayed when its second entry was
\* redirected: a jump to the handle of the second line went to the first
\* inserted entry
C29_Witness ==
    /\ DOMAIN plist.playlist_id_to_extmark_id = {1, 2}
    /\ 2 \in DOMAIN plist.updated_indices
    /\ Len(mgr.data_playlist) >= 2
    /\ mgr.data_playlist[2].id = plist.updated_indices[2]
    /\ did.sent = << <<"playlist-play-index", 1>> >>

\* ==========================================================================
\* Claims about the update action (checked under SpecAction)
\* ==========================================================================
\* the sole reference of a singleton playlist is taken for a query by the
\* smart choice
ResemblesQuery ==
    /\ Len(nvim.filenames) = 1
    /\ nvim.smart_youtube
    /\ YtdlYoutubeSearch(nvim.filenames[1]).matched

\* C25: the update action of a new session is the override of the command
\* when it names one; without an override it is paste or new_one for a
\* singleton whose reference resembles a query, and the configured
\* on_playlist_update in every other case (several lines, or a singleton with
\* an ordinary reference).
C25_UpdateActionChosen ==
    mgr.created =>
        IF ParseMpvopenArgs(nvim.local_args) # Null
        THEN mgr.update_action = ParseMpvopenArgs(nvim.local_args)
        ELSE IF ResemblesQuery
        THEN mgr.update_action \in {"paste", "new_one"}
        ELSE mgr.update_action = nvim.on_playlist_update

\* ==========================================================================
\* Claims about load events after got-playlist events (checked under SpecRec)
\* ==========================================================================
\* C28: after any got-playlist events under any update action, the handler of
\* file-loaded does not raise: it finds the item of the loaded id or of the
\* id it is remapped to, or it shows "Playlist transition failed!".
C28_FileLoadedNeverRaises ==
    [][(\E title \in LoadValues : FileLoaded(title, title)) =>
          did'.raised = Null]_vars

\* ==========================================================================
\* Claims about toggle_video (checked under SpecRelaunch and SpecRelaunchFair)
\* ==========================================================================
\* the session has a connected player and is neither spawning nor
\* transitioning
Ready ==
    /\ mgr.mpv
    /\ ~mgr.spawning
    /\ ~mgr.transitioning
    /\ transport = "open"

\* C21: while a relaunch is transitioning the session stays in the registry,
\* and a relaunch that has sent quit leads to a session that is Ready again,
\* on a new connected player.
C21_RelaunchReturnsToReady ==
    /\ [](mgr.transitioning => mgr.registered)
    /\ mgr.transitioning ~> (Ready /\ mgr.registered)

\* the loadfile commands for the entries of a playlist, in its order
LoadsOf(playlist) ==
    [k \in 1..Len(playlist) |-> <<"loadfile", playlist[k].filename>>]

\* C22: when toggle_video has torn the old player down, and the old player
\* had reported the playlist it had then, what _load_playlist sends to a new
\* player is one loadfile per entry of that playlist, in the same order.
C22_RelaunchLoadsLivePlaylist ==
    [][\A t \in 1..Len(tasks) :
          (/\ ToggleTearsDown(t)
           /\ mgr'.transitioning
           /\ mgr.data_playlist = player.playlist) =>
              LoadFiles' = LoadsOf(player.playlist)]_vars

\* ==========================================================================
\* More claims about the shared counter (checked under Spec)
\* ==========================================================================
\* the ids a step hands out: new observer ids, new or rewritten entries of
\* _waiting_properties, a new _playlist_request
AllocatedByStep ==
    (DOMAIN reverse_properties' \ DOMAIN reverse_properties)
    \cup {id \in DOMAIN waiting_properties' :
             \/ id \notin DOMAIN waiting_properties
             \/ waiting_properties'[id] # waiting_properties[id]}
    \cup (IF playlist_request' # playlist_request
          THEN {playlist_request'} \ {NoPlaylistRequest} ELSE {})

\* the ids in use: observer ids, ids of pending requests, the playlist request
InUse ==
    DOMAIN reverse_properties \cup DOMAIN waiting_properties
    \cup ({playlist_request} \ {NoPlaylistRequest})

\* C32: the counter never goes back, every id in use was drawn below it, and
\* an id a step hands out is the counter's value before the step and lies
\* below its value after it, so it differs from every id handed out earlier;
\* no id of a pending request or of the playlist request is an observer id.
C32_AllocatedIdsAreFresh ==
    [][/\ last_property' >= last_property
       /\ \A id \in InUse : id < last_property
       /\ \A id \in AllocatedByStep :
              /\ id = last_property
              /\ id < last_property'
              /\ id \notin InUse
       /\ DOMAIN reverse_properties' \cap DOMAIN waiting_properties' = {}
       /\ playlist_request' \notin
              DOMAIN reverse_properties' \cup DOMAIN waiting_properties']_vars

\* an observer id was drawn and then the id of a request that is still
\* pending
C32_Witness ==
    /\ DOMAIN reverse_properties = {FirstId}
    /\ DOMAIN waiting_properties = {FirstId + 1}
    /\ last_property = FirstId + 2

\* ==========================================================================
\* More claims about the command surface (checked under SpecManager)
\* ==========================================================================
\* the step wrote one set_property of pause to the transport
SentPause(sent) ==
    /\ Len(sent) = 1
    /\ Len(sent[1]) = 3
    /\ sent[1][1] = "set_property"
    /\ sent[1][2] = "pause"
    /\ sent[1][3] \in {True, "False"}

\* C40: a toggle_pause that follows a toggle_pause at once, both on a
\* connected player, sends the opposite pause value.
C40_TogglesAlternate ==
    [][(MgrTogglePause /\ SentPause(did.sent) /\ SentPause(did'.sent)) =>
          did'.sent[1][3] # did.sent[1][3]]_vars

\* ==========================================================================
\* More claims about start-file and file-loaded (checked under SpecLoadFair)
\* ==========================================================================
\* C36: once file-loaded has followed a start-file, which set no_draw, no_draw
\* is False again at some later time, whether the loaded id is the id of an
\* item, a key of playlist_id_remap or unknown.
C36_DrawingResumes ==
    (player.phase = "loaded") ~> ~mgr.no_draw

\* ==========================================================================
\* Claims about reorder_by_index and the tables (checked under SpecReorder)
\* ==========================================================================
\* C37: every value of playlist_id_to_extmark_id after the reorder_by_index
\* of a teardown was a value of it before.
C37_ReorderKeepsHandles ==
    [][\A t \in 1..Len(tasks) :
          (ToggleTearsDown(t) /\ mgr'.transitioning) =>
              Range(plist'.playlist_id_to_extmark_id)
                  \subseteq Range(plist.playlist_id_to_extmark_id)]_vars

\* the number of entries of playlist_id_to_extmark_id
HandleCount == Cardinality(DOMAIN plist.playlist_id_to_extmark_id)

\* C31: the number of entries of playlist_id_to_extmark_id gets smaller only
\* when the editor runs _new_playlist_buffer (no step of the session removes
\* entries for a deletion), and larger only when the editor runs a callback
\* of a got-playlist; the reorder_by_index of a teardown leaves it as it is.
C31_HandleCountChanges ==
    [][/\ HandleCount' < HandleCount =>
              /\ RunPlaylistCall
              /\ Head(nvim.calls).fn = "_new_playlist_buffer"
       /\ HandleCount' > HandleCount => RunPlaylistCall]_vars

\* ==========================================================================
\* More claims about got-playlist events (checked under SpecPlaylist)
\* ==========================================================================
\* the entries of a playlist whose item update can find: inserted by this
\* got-playlist, or a key of playlist_id_to_extra_data
HasReference(new, playlist) ==
    {k \in 1..Len(playlist) :
        \/ playlist[k].id \in InsertRange(new)
        \/ playlist[k].id \in DOMAIN plist.playlist_id_to_extra_data}

\* C38: when update has prepared _new_extra_data for a got-playlist, the
\* table has an item with a filename, not None, for every entry of the
\* playlist of the event.
C38_ReloadTableComplete ==
    [][\A k \in 1..Len(player.playlist), count \in 1..PlMaxIds,
          titled \in BOOLEAN, current \in BOOLEAN :
          (/\ GotPlaylist(k, count, titled, current)
           /\ did'.raised = Null) =>
              /\ Len(plist'.new_extra_data) = Len(player'.playlist)
              /\ HasReference(GotPlaylistData(k, count, titled, current).new,
                              player'.playlist) = 1..Len(player'.playlist)]_vars

\* ==========================================================================
\* More claims about toggle_video (checked under SpecRelaunch)
\* ==========================================================================
\* C35: a toggle_video begins its teardown (sets _transitioning_players,
\* sends quit, reorders the playlist) only when no other toggle_video of the
\* session has begun one that is still in progress.
C35_OneRelaunchAtATime ==
    [][\A t \in 1..Len(tasks) :
          (ToggleTearsDown(t) /\ mgr'.transitioning) => ~mgr.transitioning]_vars

C34_RedirectGetsOwnPlaylist ==
    [][\A i \in 1..Len(wire) :
          (/\ wire[i].rid \in DOMAIN player.asked
           /\ \E d \in Values \cup {Null} : RedirectReply(i, FALSE, d))
          => (/\ out'.events = <<"got-playlist">>
              /\ did'.new = player.asked[wire[i].rid])]_vars

\* ==========================================================================
\* Claims about chunks (checked under SpecChunks)
\* ==========================================================================
\* the lines whose newline data_received has been given
LinesReceived ==
    Len(player.written)
    - Cardinality({i \in 1..Len(player.pending) : player.pending[i] = Newline})

\* C39: whatever the chunks are, the messages data_received has handled are
\* the first messages the player wrote, each once and in the order written,
\* and every message whose line has been received whole is among them.
C39_MessagesHandledOnceInOrder ==
    /\ Len(did.handled) <= Len(player.written)
    /\ did.handled = SubSeq(player.written, 1, Len(did.handled))
    /\ Len(did.handled) >= LinesReceived

====
